---- MODULE Spec2Model ----
(***************************************************************************)
(* snap2slides: the analysis pipeline (retryWithBackoff, the response      *)
(* parser and validator of analyzeImageWithGeminiPro, the POST handler of  *)
(* /api/gemini-vision) and the slide generator (theme resolution and       *)
(* presentation assembly of lib/slide-generator.ts); the layout optimizer, *)
(* sanitizeInput, generateSmartTheme, the useAutoSave hook and the         *)
(* CircuitBreaker of lib/errors.ts.                                        *)
(***************************************************************************)
EXTENDS Integers, Sequences, FiniteSets, TLC

VARIABLES
    caller,        \* who runs the retry executor: "generic" or "route"
    maxRetries,    \* retryWithBackoff parameter
    baseDelayMs,   \* retryWithBackoff parameter
    pc,            \* position of the retryWithBackoff call
    attempt,       \* the loop variable of retryWithBackoff
    trace,         \* history: invocations, settlements, sleeps, wake-ups
    result,        \* the value the retryWithBackoff promise resolved with
    error,         \* the error the retryWithBackoff promise rejected with
    rpc,           \* position of the POST handler
    hasKey,        \* process.env.GEMINI_API_KEY is set
    hasImage,      \* formData.get('image') is present
    response,      \* the HTTP response of the POST handler
    gpc,           \* position of the slide generator run
    analysis,      \* input of generatePresentationFromAnalysis
    customTheme,   \* optional explicit theme
    seed,          \* first identifier nanoid will hand out
    presentation,  \* output of generatePresentationFromAnalysis
    calls,         \* two retryWithBackoff calls in flight at once: the locals of each
    lpc,           \* position of the layout run
    lsection,      \* the section createSlideFromContent is given
    lslide,        \* the slide object optimizeSlideLayout is given
    layouts,       \* what the successive optimizeSlideLayout calls returned
    spc,           \* position of the sanitizeInput run
    input,         \* argument of sanitizeInput
    output,        \* what sanitizeInput returned
    apc,           \* useAutoSave: "off" or "mounted"
    enabled,       \* useAutoSave option
    dependencies,  \* the dependencies array of the latest render
    lastSavedRef,  \* lastSavedRef.current
    isSavingRef,   \* isSavingRef.current
    timeoutId,     \* the armed timer of the latest debouncedSave, with what it closes over
    onSaveCalls,   \* the onSave promises not yet settled, with the closure that awaits each
    saveLog,       \* history: counts of changes and calls, what the last good save saved
    bpc,           \* CircuitBreaker: "off" or "constructed"
    threshold,     \* CircuitBreaker.threshold
    timeout,       \* CircuitBreaker.timeout
    state,         \* CircuitBreaker.state
    failures,      \* CircuitBreaker.failures
    lastFailureTime, \* CircuitBreaker.lastFailureTime
    now,           \* Date.now()
    executing,     \* the execute calls that are awaiting fn()
    breakerLog     \* history: execute calls and how each ended

retryVars == <<caller, maxRetries, baseDelayMs, pc, attempt, trace, result, error>>
routeVars == <<rpc, hasKey, hasImage, response>>
genVars == <<gpc, analysis, customTheme, seed, presentation>>
pairVars == <<calls>>
layoutVars == <<lpc, lsection, lslide, layouts>>
sanVars == <<spc, input, output>>
saveVars ==
    <<apc, enabled, dependencies, lastSavedRef, isSavingRef, timeoutId, onSaveCalls, saveLog>>
breakerVars ==
    <<bpc, threshold, timeout, state, failures, lastFailureTime, now, executing, breakerLog>>
moreVars == <<saveVars, breakerVars>>
otherVars == <<pairVars, layoutVars, sanVars, moreVars>>
vars == <<retryVars, routeVars, genVars, otherVars>>

(***************************************************************************)
(* Bounds of the model.                                                    *)
(***************************************************************************)
MaxRetriesBound == 4
MaxSections == 2
MaxSeed == 1

(***************************************************************************)
(* JavaScript values, as far as the code looks at them.                    *)
(***************************************************************************)
Undef == [k |-> "undefined"]
Null == [k |-> "null"]
Str(s) == [k |-> "string", s |-> s]
Num(n) == [k |-> "number", n |-> n]
Arr(a) == [k |-> "array", a |-> a]
Obj(o) == [k |-> "object", o |-> o]

\* ToBoolean: what `!x` and `x || y` look at
Truthy(v) ==
    CASE v.k = "undefined" -> FALSE
      [] v.k = "null" -> FALSE
      [] v.k = "string" -> v.s # ""
      [] v.k = "number" -> v.n # 0
      [] OTHER -> TRUE

\* property read `v.f` on a value that is neither null nor undefined
Get(v, f) ==
    IF v.k = "object" /\ f \in DOMAIN v.o THEN v.o[f] ELSE Undef

IsArray(v) == v.k = "array"

\* String.prototype.includes
Includes(s, sub) ==
    \E i \in 1..(Len(s) - Len(sub) + 1) : SubSeq(s, i, i + Len(sub) - 1) = sub

RECURSIVE Join(_, _)
\* Array.prototype.join on an array of strings
Join(strs, sep) ==
    IF Len(strs) = 0 THEN ""
    ELSE IF Len(strs) = 1 THEN strs[1]
    ELSE strs[1] \o sep \o Join(Tail(strs), sep)

RECURSIVE Pow2(_)
\* Math.pow(2, n) for n >= 0
Pow2(n) == IF n <= 0 THEN 1 ELSE 2 * Pow2(n - 1)

(***************************************************************************)
(* Errors: the two things the retry executor reads from a thrown value.    *)
(* An absent message is "", an absent status is 0.                         *)
(***************************************************************************)
Err(m, s) == [message |-> m, status |-> s]
NoError == Err("", -1)
NoValue == [k |-> "none"]

RateLimitError == Err("API rate limit reached", 0)
QuotaExceededError == Err("You exceeded your current quota, check your plan", 0)
QuotaOtherError == Err("Daily quota used up", 0)
TooManyRequestsError == Err("Too Many Requests", 429)
NetworkError == Err("fetch failed", 0)
CapsRateLimitError == Err("Rate Limit hit", 503)

ThrownErrors ==
    {RateLimitError, QuotaExceededError, QuotaOtherError, TooManyRequestsError,
     NetworkError, CapsRateLimitError}

Throw(e) == [kind |-> "throw", error |-> e]
Return(v) == [kind |-> "return", value |-> v]

(***************************************************************************)
(* JSON text.  JsonStringify writes a value the way the model's answers    *)
(* are written; JSON.parse is its inverse on the answers considered, and   *)
(* a SyntaxError on every other text.                                      *)
(***************************************************************************)
KeyOrder ==
    <<"structuredContent", "title", "sections", "heading", "bullets",
      "suggestedTheme", "colorPalette">>

InKeys(o) == SelectSeq(KeyOrder, LAMBDA key : key \in DOMAIN o)

RECURSIVE JsonStringify(_)
JsonStringify(v) ==
    CASE v.k = "string" -> "\"" \o v.s \o "\""
      [] v.k = "number" -> ToString(v.n)
      [] v.k = "null" -> "null"
      [] v.k = "array" ->
           "[" \o Join([i \in 1..Len(v.a) |-> JsonStringify(v.a[i])], ",") \o "]"
      [] v.k = "object" ->
           LET ks == InKeys(v.o) IN
           "{" \o Join([i \in 1..Len(ks) |->
                          "\"" \o ks[i] \o "\":" \o JsonStringify(v.o[ks[i]])], ",")
               \o "}"

\* an object literal; a field given as Undef is absent
MkObj(f) == Obj([key \in {x \in DOMAIN f : f[x] # Undef} |-> f[key]])

SectionValue == MkObj([heading |-> Str("H"), bullets |-> Arr(<<Str("b")>>)])

StructuredContentValues ==
    {Undef, Null} \cup
    {MkObj([title |-> t, sections |-> s]) :
        t \in {Undef, Str(""), Str("T")},
        s \in {Undef, Arr(<<>>), Arr(<<SectionValue>>), Str("none")}}

SuggestedThemeValues == {Undef, Str(""), Str("modern"), Str("neon")}

ColorPaletteValues ==
    {Undef, Arr(<<>>), Arr(<<Str("#111111"), Str("#222222"), Str("#333333")>>),
     Str("#ffffff")}

\* the objects a model answer may hold
ResponseObjects ==
    {MkObj([structuredContent |-> sc, suggestedTheme |-> st, colorPalette |-> cp]) :
        sc \in StructuredContentValues,
        st \in SuggestedThemeValues,
        cp \in ColorPaletteValues}

\* an answer that has every required field
GoodObject ==
    MkObj([structuredContent |-> MkObj([title |-> Str("T"), sections |-> Arr(<<SectionValue>>)]),
           suggestedTheme |-> Str("modern"),
           colorPalette |-> Arr(<<Str("#111111"), Str("#222222"), Str("#333333")>>)])

ParseTable == {<<JsonStringify(v), v>> : v \in ResponseObjects}

SyntaxError == Err("Unexpected token in JSON", 0)

\* JSON.parse
JsonParse(s) ==
    IF \E p \in ParseTable : p[1] = s
    THEN Return((CHOOSE p \in ParseTable : p[1] = s)[2])
    ELSE Throw(SyntaxError)

(***************************************************************************)
(* The two regular expressions of the response parser.                     *)
(***************************************************************************)
Backtick == SubSeq("`'", 1, 1)
Fence == Backtick \o Backtick \o Backtick

Char(t, i) == SubSeq(t, i, i)
StartsAt(t, i, s) == i >= 1 /\ i + Len(s) - 1 <= Len(t) /\ SubSeq(t, i, i + Len(s) - 1) = s
IsWhitespace(c) == c \in {" ", "\n", "\t", "\r"}
Min(S) == CHOOSE x \in S : \A y \in S : x <= y
Max(S) == CHOOSE x \in S : \A y \in S : x >= y

RECURSIVE SkipWhitespace(_, _)
SkipWhitespace(t, i) ==
    IF i <= Len(t) /\ IsWhitespace(Char(t, i)) THEN SkipWhitespace(t, i + 1) ELSE i

NoMatch == [found |-> FALSE, m0 |-> ""]
Match(s) == [found |-> TRUE, m0 |-> s]

\* mutant of JsonSpanMatch: a lazy match, the first '{' up to the first '}' after it
JsonSpanMatchLazy(text) ==
    LET opens == {i \in 1..Len(text) : Char(text, i) = "{"}
        closes == {i \in 1..Len(text) : Char(text, i) = "}"}
    IN  IF opens = {} \/ {q \in closes : q > Min(opens)} = {} THEN NoMatch
        ELSE Match(SubSeq(text, Min(opens), Min({q \in closes : q > Min(opens)})))

\* text.match(/\{[\s\S]*\}/): the first '{' up to the last '}' after it
JsonSpanMatch(text) ==
    LET opens == {i \in 1..Len(text) : Char(text, i) = "{"}
        closes == {i \in 1..Len(text) : Char(text, i) = "}"}
    IN  IF opens = {} \/ closes = {} THEN NoMatch
        ELSE IF Max(closes) > Min(opens)
             THEN Match(SubSeq(text, Min(opens), Max(closes)))
             ELSE NoMatch

\* where group 1 of /```(?:json)?\s*(\{[\s\S]*\})\s*```/ starts for a fence at a (0: nowhere)
FenceBrace(text, a) ==
    LET withJson == SkipWhitespace(text, a + 7)
        bare == SkipWhitespace(text, a + 3)
    IN  IF StartsAt(text, a + 3, "json") /\ StartsAt(text, withJson, "{") THEN withJson
        ELSE IF StartsAt(text, bare, "{") THEN bare
        ELSE 0

\* a '}' at q followed by \s*```
FenceClose(text, q) ==
    Char(text, q) = "}" /\ StartsAt(text, SkipWhitespace(text, q + 1), Fence)

\* text.match(/```(?:json)?\s*(\{[\s\S]*\})\s*```/), with m[0] = m[1] (lines 173-176)
FencedJsonMatch(text) ==
    LET starts == {a \in 1..Len(text) :
                     /\ StartsAt(text, a, Fence)
                     /\ FenceBrace(text, a) # 0
                     /\ \E q \in (FenceBrace(text, a) + 1)..Len(text) : FenceClose(text, q)}
    IN  IF starts = {} THEN NoMatch
        ELSE LET p == FenceBrace(text, Min(starts))
                 q == Max({x \in (p + 1)..Len(text) : FenceClose(text, x)})
             IN  Match(SubSeq(text, p, q))

\* lines 170-177: the candidate JSON text
FindJson(text) ==
    IF JsonSpanMatch(text).found THEN JsonSpanMatch(text) ELSE FencedJsonMatch(text)

(***************************************************************************)
(* The validator (lines 194-210).                                          *)
(***************************************************************************)
\* mutant of ValidationErrors: the check stops at the first violation
ValidationErrorsFirstOnly(analysisResult) ==
    LET sc == Get(analysisResult, "structuredContent") IN
    IF ~Truthy(sc) THEN <<"Missing structuredContent">>
    ELSE IF ~Truthy(Get(sc, "title")) THEN <<"Missing title">>
    ELSE IF ~IsArray(Get(sc, "sections")) THEN <<"Invalid sections array">>
    ELSE IF ~Truthy(Get(analysisResult, "suggestedTheme")) THEN <<"Missing suggestedTheme">>
    ELSE IF ~IsArray(Get(analysisResult, "colorPalette")) THEN <<"Missing colorPalette">>
    ELSE <<>>

ValidationErrors(analysisResult) ==
    LET sc == Get(analysisResult, "structuredContent") IN
    (IF ~Truthy(sc) THEN <<"Missing structuredContent">>
     ELSE (IF ~Truthy(Get(sc, "title")) THEN <<"Missing title">> ELSE <<>>)
          \o (IF ~IsArray(Get(sc, "sections")) THEN <<"Invalid sections array">> ELSE <<>>))
    \o (IF ~Truthy(Get(analysisResult, "suggestedTheme"))
        THEN <<"Missing suggestedTheme">> ELSE <<>>)
    \o (IF ~IsArray(Get(analysisResult, "colorPalette"))
        THEN <<"Missing colorPalette">> ELSE <<>>)

MalformedResponse == Err("AI response was not in the expected format", 0)
InvalidJSON == Err("AI response contained invalid JSON", 0)
ValidationFailed(errs) ==
    Err("AI response missing required fields: " \o Join(errs, ", "), 0)

\* lines 169-213: what the retried operation does with the model's text
ParseAndValidate(text) ==
    LET m == FindJson(text) IN
    IF ~m.found THEN Throw(MalformedResponse)
    ELSE LET parsed == JsonParse(m.m0) IN
         IF parsed.kind = "throw" THEN Throw(InvalidJSON)
         ELSE IF Len(ValidationErrors(parsed.value)) > 0
              THEN Throw(ValidationFailed(ValidationErrors(parsed.value)))
              ELSE Return(parsed.value)

RECURSIVE SkipWhitespaceBack(_, _)
SkipWhitespaceBack(t, i) ==
    IF i >= 1 /\ IsWhitespace(Char(t, i)) THEN SkipWhitespaceBack(t, i - 1) ELSE i

\* String.prototype.trim
Trim(s) ==
    LET first == SkipWhitespace(s, 1)
        last == SkipWhitespaceBack(s, Len(s))
    IN  IF first > last THEN "" ELSE SubSeq(s, first, last)

\* the operation analyzeImageWithGeminiPro hands to retryWithBackoff (lines 106-214):
\* modelOutcome is what model.generateContent / response.text() did
AnalyzeOperation(modelOutcome) ==
    IF modelOutcome.kind = "throw" THEN modelOutcome
    ELSE ParseAndValidate(modelOutcome.text)

\* lines 329-344: the theme the catch block of generateSmartTheme returns
FallbackTheme ==
    [id |-> "fallback-smart", name |-> "Smart Professional",
     colors |-> [primary |-> "#2563eb", secondary |-> "#64748b", accent |-> "#06b6d4",
                 background |-> "#ffffff", text |-> "#1e293b"],
     fonts |-> [heading |-> "Inter, sans-serif", body |-> "Inter, sans-serif"],
     layout |-> "modern"]

NoThemeJson == Err("Could not find JSON in theme response", 0)

\* mutant of ThemeOperation: no try/catch around the model call and the parsing
ThemeOperationRethrows(modelOutcome) ==
    IF modelOutcome.kind = "throw" THEN modelOutcome
    ELSE LET m == JsonSpanMatch(Trim(modelOutcome.text)) IN
         IF ~m.found THEN Throw(NoThemeJson)
         ELSE LET parsed == JsonParse(m.m0) IN
              IF parsed.kind = "throw" THEN Throw(SyntaxError)
              ELSE Return(parsed.value)

\* the operation generateSmartTheme hands to retryWithBackoff (lines 267-346): every
\* throw of lines 313-323 is caught at line 326
ThemeOperation(modelOutcome) ==
    IF modelOutcome.kind = "throw" THEN Return(FallbackTheme)
    ELSE LET m == JsonSpanMatch(Trim(modelOutcome.text)) IN
         IF ~m.found THEN Return(FallbackTheme)
         ELSE LET parsed == JsonParse(m.m0) IN
              IF parsed.kind = "throw" THEN Return(FallbackTheme)
              ELSE Return(parsed.value)

(***************************************************************************)
(* What the model call can do: reject, or answer with a text.              *)
(***************************************************************************)
Text(t) == [kind |-> "text", text |-> t]

FencedText(v) ==
    "Here is the result: " \o Fence \o "json\n" \o JsonStringify(v) \o "\n" \o Fence

GarbageTexts ==
    {"no json here",
     Fence \o "json\n[1,2]\n" \o Fence,
     "} closes before { opens",
     "{not json}",
     "{\"title\":\"A\"} and {\"title\":\"B\"}"}

ModelTexts ==
    {JsonStringify(v) : v \in ResponseObjects}
    \cup {FencedText(v) : v \in ResponseObjects}
    \cup GarbageTexts

ModelOutcomes == {Text(t) : t \in ModelTexts} \cup {Throw(e) : e \in ThrownErrors}

\* what an arbitrary operation handed to retryWithBackoff can do
OperationValues == {Str("done"), Num(0)}
GenericOutcomes == {Return(v) : v \in OperationValues} \cup {Throw(e) : e \in ThrownErrors}

(***************************************************************************)
(* retryWithBackoff (lines 71-97).                                         *)
(***************************************************************************)
DefaultMaxRetries == 3
DefaultBaseDelayMs == 1000
AnalyzeMaxRetries == 3
AnalyzeBaseDelayMs == 2000
SmartThemeMaxRetries == 2
SmartThemeBaseDelayMs == 1000
BaseDelays == {DefaultBaseDelayMs, 1500, AnalyzeBaseDelayMs}

\* mutant of IsRateLimit: whatever the operation throws counts as a busy API
IsRateLimitAnyError(err) == TRUE

\* lines 81-83
IsRateLimit(err) ==
    \/ Includes(err.message, "rate limit")
    \/ Includes(err.message, "quota")
    \/ err.status = 429

\* mutant of BackoffDelay: the delay grows linearly
BackoffDelayLinear(base, att) == base * att

\* line 87
BackoffDelay(base, att) == base * Pow2(att - 1)

\* mutant of ShouldRetry: every error is retried while attempts remain
ShouldRetryAnyError(err, att, maxR) == att < maxR

\* mutant of ShouldRetry: the last attempt also sleeps, and the loop then runs out
ShouldRetryInclusive(err, att, maxR) == IsRateLimit(err) /\ att <= maxR

\* line 85: whether the catch block sleeps and retries
ShouldRetry(err, att, maxR) == IsRateLimit(err) /\ att < maxR

MaxRetriesExceeded == Err("Max retries exceeded", 0)

InvokeEvent(n) == [e |-> "invoke", attempt |-> n]
SettleEvent(raw, o) == [e |-> "settle", raw |-> raw, outcome |-> o]
SleepEvent(ms) == [e |-> "sleep", ms |-> ms]
WakeEvent == [e |-> "wake"]

\* line 76, condition true, and line 78: the operation is invoked
Invoke ==
    /\ pc = "loop"
    /\ attempt <= maxRetries
    /\ pc' = "awaiting"
    /\ trace' = Append(trace, InvokeEvent(attempt))
    /\ UNCHANGED <<caller, maxRetries, baseDelayMs, attempt, result, error>>
    /\ UNCHANGED <<routeVars, genVars, otherVars>>

\* line 76, condition false, and line 96
Exhausted ==
    /\ pc = "loop"
    /\ attempt > maxRetries
    /\ pc' = "rejected"
    /\ error' = MaxRetriesExceeded
    /\ UNCHANGED <<caller, maxRetries, baseDelayMs, attempt, trace, result>>
    /\ UNCHANGED <<routeVars, genVars, otherVars>>

\* lines 78-94: the operation settles; return, or the catch block
Settle ==
    /\ pc = "awaiting"
    /\ \E raw \in (IF caller = "generic" THEN GenericOutcomes ELSE ModelOutcomes) :
         LET o == IF caller = "generic" THEN raw
                  ELSE IF caller = "theme" THEN ThemeOperation(raw)
                  ELSE AnalyzeOperation(raw) IN
         IF o.kind = "return"
         THEN /\ pc' = "resolved"
              /\ result' = o.value
              /\ trace' = Append(trace, SettleEvent(raw, o))
              /\ UNCHANGED error
         ELSE IF ShouldRetry(o.error, attempt, maxRetries)
              THEN /\ pc' = "sleeping"
                   /\ trace' = trace \o <<SettleEvent(raw, o),
                                          SleepEvent(BackoffDelay(baseDelayMs, attempt))>>
                   /\ UNCHANGED <<result, error>>
              ELSE /\ pc' = "rejected"
                   /\ error' = o.error
                   /\ trace' = Append(trace, SettleEvent(raw, o))
                   /\ UNCHANGED result
    /\ UNCHANGED <<caller, maxRetries, baseDelayMs, attempt>>
    /\ UNCHANGED <<routeVars, genVars, otherVars>>

\* mutant of SleepResolves: the timer callback never resolves the promise
SleepNeverResolves == FALSE

\* line 67: setTimeout(resolve, ms) resolves the promise sleep returned
SleepResolves == TRUE

\* lines 89-90: the timer of sleep fires; continue, attempt++
TimerFires ==
    /\ pc = "sleeping"
    /\ SleepResolves
    /\ pc' = "loop"
    /\ attempt' = attempt + 1
    /\ trace' = Append(trace, WakeEvent)
    /\ UNCHANGED <<caller, maxRetries, baseDelayMs, result, error>>
    /\ UNCHANGED <<routeVars, genVars, otherVars>>

(***************************************************************************)
(* POST /api/gemini-vision (route.ts lines 7-106).                         *)
(***************************************************************************)
NoResponse ==
    [status |-> 0, success |-> FALSE, analysis |-> NoValue, error |-> "", details |-> ""]
ErrorResponse(st, msg, det) ==
    [status |-> st, success |-> FALSE, analysis |-> NoValue, error |-> msg, details |-> det]
SuccessResponse(a) ==
    [status |-> 200, success |-> TRUE, analysis |-> a, error |-> "", details |-> ""]

\* route.ts lines 66-94
MockAnalysis ==
    Obj([structuredContent |->
            Obj([title |-> Str("Sample Presentation from Image"),
                 introduction |-> Str("This is a demo response due to API quota limits."),
                 sections |-> Arr(<<
                    Obj([title |-> Str("Key Insights"),
                         content |-> Str("The uploaded image contains visual elements that would make great slide content."),
                         bulletPoints |-> Arr(<<
                            Str("Visual analysis requires API quota"),
                            Str("Switch to paid tier for full functionality"),
                            Str("This is a placeholder response")>>)])>>),
                 conclusion |-> Str("Upgrade your Gemini API plan to unlock full image analysis capabilities.")]),
         slideMetadata |->
            Obj([totalSlides |-> Num(3),
                 suggestedDuration |-> Str("5-7 minutes"),
                 complexity |-> Str("beginner"),
                 audience |-> Str("general")]),
         designSuggestions |->
            Obj([colorScheme |-> Str("minimalist"),
                 fontStyle |-> Str("modern"),
                 layoutPreference |-> Str("clean")])])

\* route.ts lines 56-105: the catch block
RouteCatch(err) ==
    IF Includes(err.message, "exceeded your current quota")
    THEN SuccessResponse(MockAnalysis)
    ELSE ErrorResponse(500, "Failed to analyze image", err.message)

\* route.ts lines 8-47: the checks, then the call of analyzeImageWithGeminiPro
RouteReceive ==
    /\ rpc = "request"
    /\ IF ~hasKey
       THEN /\ response' = ErrorResponse(500, "Gemini API key not configured", "")
            /\ rpc' = "responded"
            /\ UNCHANGED <<pc, attempt, maxRetries, baseDelayMs>>
       ELSE IF ~hasImage
            THEN /\ response' = ErrorResponse(400, "Image file is required", "")
                 /\ rpc' = "responded"
                 /\ UNCHANGED <<pc, attempt, maxRetries, baseDelayMs>>
            ELSE /\ rpc' = "analyzing"
                 /\ pc' = "loop"
                 /\ attempt' = 1
                 /\ maxRetries' = AnalyzeMaxRetries
                 /\ baseDelayMs' = AnalyzeBaseDelayMs
                 /\ UNCHANGED response
    /\ UNCHANGED <<caller, trace, result, error, hasKey, hasImage>>
    /\ UNCHANGED <<genVars, otherVars>>

\* route.ts lines 47-105: analyzeImageWithGeminiPro settled
RouteRespond ==
    /\ rpc = "analyzing"
    /\ pc \in {"resolved", "rejected"}
    /\ response' = IF pc = "resolved" THEN SuccessResponse(result) ELSE RouteCatch(error)
    /\ rpc' = "responded"
    /\ UNCHANGED <<retryVars, hasKey, hasImage>>
    /\ UNCHANGED <<genVars, otherVars>>

GenOff ==
    /\ gpc = "off"
    /\ analysis = NoValue
    /\ customTheme = NoValue
    /\ seed = 0
    /\ presentation = NoValue

PairOff == calls = NoValue

LayoutOff ==
    /\ lpc = "off"
    /\ lsection = NoValue
    /\ lslide = NoValue
    /\ layouts = <<>>

SanOff ==
    /\ spc = "off"
    /\ input = NoValue
    /\ output = NoValue

SaveOff ==
    /\ apc = "off"
    /\ enabled = FALSE
    /\ dependencies = NoValue
    /\ lastSavedRef = ""
    /\ isSavingRef = FALSE
    /\ timeoutId = NoValue
    /\ onSaveCalls = {}
    /\ saveLog = [changes |-> 0, forceSaves |-> 0, onSaves |-> 0, unchanged |-> 0,
                  saved |-> ""]

BreakerOff ==
    /\ bpc = "off"
    /\ threshold = 0
    /\ timeout = 0
    /\ state = "CLOSED"
    /\ failures = 0
    /\ lastFailureTime = NoValue
    /\ now = 0
    /\ executing = {}
    /\ breakerLog = <<>>

MoreOff == SaveOff /\ BreakerOff

Init ==
    /\ caller \in {"generic", "route"}
    /\ trace = <<>>
    /\ result = NoValue
    /\ error = NoError
    /\ response = NoResponse
    /\ attempt = 1
    /\ IF caller = "generic"
       THEN /\ maxRetries \in 0..MaxRetriesBound
            /\ baseDelayMs \in BaseDelays
            /\ pc = "loop"
            /\ rpc = "none"
            /\ hasKey = TRUE
            /\ hasImage = TRUE
       ELSE /\ maxRetries = DefaultMaxRetries
            /\ baseDelayMs = DefaultBaseDelayMs
            /\ pc = "idle"
            /\ rpc = "request"
            /\ hasKey \in BOOLEAN
            /\ hasImage \in BOOLEAN
    /\ GenOff
    /\ PairOff
    /\ LayoutOff
    /\ SanOff
    /\ MoreOff

Next ==
    \/ Invoke
    \/ Exhausted
    \/ Settle
    \/ TimerFires
    \/ RouteReceive
    \/ RouteRespond

Spec == Init /\ [][Next]_vars

\* retryWithBackoff called on an arbitrary operation
InitLive == Init /\ caller = "generic"

NextLive ==
    \/ Invoke
    \/ Exhausted
    \/ Settle
    \/ TimerFires

\* the event loop runs every step that is ready: synchronous code continues, the
\* operation's promise settles, an armed timer fires
Fairness ==
    /\ WF_vars(Invoke)
    /\ WF_vars(Exhausted)
    /\ WF_vars(Settle)
    /\ WF_vars(TimerFires)

SpecLive == InitLive /\ [][NextLive]_vars /\ Fairness

\* lib/mongodb.ts: analyzeImageWithGeminiPro or generateSmartTheme is called
InitAI ==
    /\ caller \in {"analyze", "theme"}
    /\ maxRetries = (IF caller = "theme" THEN SmartThemeMaxRetries ELSE AnalyzeMaxRetries)
    /\ baseDelayMs = (IF caller = "theme" THEN SmartThemeBaseDelayMs ELSE AnalyzeBaseDelayMs)
    /\ pc = "loop"
    /\ attempt = 1
    /\ trace = <<>>
    /\ result = NoValue
    /\ error = NoError
    /\ rpc = "none"
    /\ hasKey = TRUE
    /\ hasImage = TRUE
    /\ response = NoResponse
    /\ GenOff
    /\ PairOff
    /\ LayoutOff
    /\ SanOff
    /\ MoreOff

\* both callers pass maxRetries >= 1, and the last attempt rethrows at line 93: the loop
\* is never left at line 76, so line 96 is not reached
NextAI ==
    \/ Invoke
    \/ Settle
    \/ TimerFires

SpecAI == InitAI /\ [][NextAI]_vars

(***************************************************************************)
(* lib/slide-generator.ts: themes.                                         *)
(***************************************************************************)
MaxPaletteLen == 6

Colors(p, s, a, b, t) ==
    [primary |-> p, secondary |-> s, accent |-> a, background |-> b, text |-> t]
Fonts(h, b) == [heading |-> h, body |-> b]

\* lines 9-74
DEFAULT_THEMES ==
    << [id |-> "modern", name |-> "Modern Professional",
        colors |-> Colors(Str("#2563eb"), Str("#64748b"), Str("#06b6d4"),
                          Str("#ffffff"), Str("#1e293b")),
        fonts |-> Fonts("Inter, sans-serif", "Inter, sans-serif"),
        layout |-> "modern"],
       [id |-> "minimal", name |-> "Clean Minimal",
        colors |-> Colors(Str("#000000"), Str("#6b7280"), Str("#f59e0b"),
                          Str("#f9fafb"), Str("#111827")),
        fonts |-> Fonts("SF Pro Display, sans-serif", "SF Pro Text, sans-serif"),
        layout |-> "minimal"],
       [id |-> "creative", name |-> "Creative Bold",
        colors |-> Colors(Str("#7c3aed"), Str("#ec4899"), Str("#f97316"),
                          Str("#1e1b4b"), Str("#f8fafc")),
        fonts |-> Fonts("Space Grotesk, sans-serif", "Inter, sans-serif"),
        layout |-> "creative"],
       [id |-> "classic", name |-> "Business Classic",
        colors |-> Colors(Str("#1f2937"), Str("#4b5563"), Str("#dc2626"),
                          Str("#ffffff"), Str("#374151")),
        fonts |-> Fonts("Georgia, serif", "system-ui, sans-serif"),
        layout |-> "classic"] >>

\* nanoid(): the n-th identifier handed out
NanoId(n) == "id" \o ToString(n)

\* `${v}` in a template string
TemplateString(v) ==
    CASE v.k = "string" -> v.s
      [] v.k = "number" -> ToString(v.n)
      [] v.k = "null" -> "null"
      [] v.k = "undefined" -> "undefined"
      [] OTHER -> "[object]"

\* what array destructuring iterates over: an array's entries, a string's characters
Elements(v) ==
    IF v.k = "array" THEN v.a
    ELSE IF v.k = "string" THEN [i \in 1..Len(v.s) |-> Str(Char(v.s, i))]
    ELSE <<>>

\* v.length, as compared with a number
Length(v) == Len(Elements(v))

\* entry i (from 1) of a destructured array, undefined past its end
At(el, i) == IF i <= Len(el) THEN el[i] ELSE Undef

\* a destructuring default `x = d`: taken only for undefined
DefaultTo(v, d) == IF v.k = "undefined" THEN d ELSE v

\* `v || d`
OrElse(v, d) == IF Truthy(v) THEN v ELSE d

\* mutant of generateThemeFromColors: background and text read from each other's position
generateThemeFromColorsSwapped(colorPalette, n) ==
    LET el == Elements(colorPalette) IN
    [id |-> "custom-" \o NanoId(n),
     name |-> "AI Generated Theme",
     colors |-> Colors(OrElse(At(el, 1), Str("#2563eb")),
                       OrElse(At(el, 2), Str("#64748b")),
                       OrElse(At(el, 3), Str("#06b6d4")),
                       DefaultTo(At(el, 5), Str("#ffffff")),
                       DefaultTo(At(el, 4), Str("#1e293b"))),
     fonts |-> Fonts("Inter, sans-serif", "Inter, sans-serif"),
     layout |-> "modern"]

\* lines 76-95; n is the identifier nanoid(8) hands out
generateThemeFromColors(colorPalette, n) ==
    LET el == Elements(colorPalette) IN
    [id |-> "custom-" \o NanoId(n),
     name |-> "AI Generated Theme",
     colors |-> Colors(OrElse(At(el, 1), Str("#2563eb")),
                       OrElse(At(el, 2), Str("#64748b")),
                       OrElse(At(el, 3), Str("#06b6d4")),
                       DefaultTo(At(el, 4), Str("#ffffff")),
                       DefaultTo(At(el, 5), Str("#1e293b"))),
     fonts |-> Fonts("Inter, sans-serif", "Inter, sans-serif"),
     layout |-> "modern"]

\* DEFAULT_THEMES.find(t => t.id === suggestedTheme) || fallbackTheme (lines 164, 172)
FindDefaultTheme(suggestedTheme) ==
    LET hits == {i \in 1..Len(DEFAULT_THEMES) :
                    suggestedTheme = Str(DEFAULT_THEMES[i].id)}
    IN  IF hits = {} THEN DEFAULT_THEMES[1] ELSE DEFAULT_THEMES[Min(hits)]

\* whether lines 167-173 take the palette branch, which calls nanoid once
UsesPalette(an, custom) ==
    custom = Undef /\ Length(Get(an, "colorPalette")) >= 3

\* mutant of SelectTheme: the palette is looked at before the explicit theme
SelectThemePaletteFirst(an, custom, n) ==
    IF Length(Get(an, "colorPalette")) >= 3
    THEN generateThemeFromColors(Get(an, "colorPalette"), n)
    ELSE IF custom # Undef THEN custom
    ELSE FindDefaultTheme(Get(an, "suggestedTheme"))

\* lines 163-173
SelectTheme(an, custom, n) ==
    IF custom # Undef THEN custom
    ELSE IF Length(Get(an, "colorPalette")) >= 3
         THEN generateThemeFromColors(Get(an, "colorPalette"), n)
         ELSE FindDefaultTheme(Get(an, "suggestedTheme"))

(***************************************************************************)
(* lib/slide-generator.ts: slides.                                         *)
(***************************************************************************)
Element(id, type, content, x, y, size, style) ==
    [id |-> id, type |-> type, content |-> content, position |-> [x |-> x, y |-> y],
     size |-> size, style |-> style]

\* mutant of SectionBullets: forEach visits the bullets from the last to the first
SectionBulletsLastFirst(content) ==
    LET bullets == Elements(Get(content, "bullets"))
    IN  [b \in 1..Len(bullets) |-> bullets[Len(bullets) + 1 - b]]

\* line 119: content.bullets, visited by forEach from the first to the last
SectionBullets(content) == Elements(Get(content, "bullets"))
\* line 134
HasImages(content) ==
    Truthy(Get(content, "images")) /\ Length(Get(content, "images")) > 0
SectionImages(content) == IF HasImages(content) THEN Elements(Get(content, "images")) ELSE <<>>

\* the calls of nanoid one createSlideFromContent makes
SlideIds(content) == 2 + Len(SectionBullets(content)) + Len(SectionImages(content))

\* a TypeError inside createSlideFromContent: a property of null or undefined is read,
\* or forEach is called on something that is no array
SectionThrows(content) ==
    \/ content.k \in {"undefined", "null"}
    \/ ~IsArray(Get(content, "bullets"))
    \/ (HasImages(content) /\ ~IsArray(Get(content, "images")))

\* lines 97-157; n is the first identifier nanoid hands out
createSlideFromContent(content, theme, index, n) ==
    LET bullets == SectionBullets(content)
        images == SectionImages(content)
        nb == Len(bullets)
        ni == Len(images)
    IN  [id |-> NanoId(n + 1 + nb + ni),
         title |-> Get(content, "heading"),
         contents |->
            << Element(NanoId(n), "title", Get(content, "heading"), 50, 20, Undef,
                       [fontSize |-> "2.5rem", fontWeight |-> "bold",
                        color |-> theme.colors.primary, alignment |-> "center"]) >>
            \o [b \in 1..nb |->
                  Element(NanoId(n + b), "bullet", bullets[b], 20, 40 + ((b - 1) * 12), Undef,
                          [fontSize |-> "1.25rem", color |-> theme.colors.text,
                           alignment |-> "left"])]
            \o [m \in 1..ni |->
                  Element(NanoId(n + nb + m), "image", images[m], 70, 30 + ((m - 1) * 20),
                          [width |-> 25, height |-> 20], Undef)],
         theme |-> theme,
         transition |-> "fade",
         background |-> [type |-> "color", value |-> TemplateString(theme.colors.background)]]

RECURSIVE ContentSlides(_, _, _, _)
\* lines 202-204: sections.map, index counting from 1, n the next identifier
ContentSlides(sections, theme, index, n) ==
    IF Len(sections) = 0 THEN <<>>
    ELSE <<createSlideFromContent(sections[1], theme, index, n)>>
         \o ContentSlides(Tail(sections), theme, index + 1, n + SlideIds(sections[1]))

RECURSIVE SectionsIds(_)
SectionsIds(sections) ==
    IF Len(sections) = 0 THEN 0 ELSE SlideIds(sections[1]) + SectionsIds(Tail(sections))

\* lines 176-199
TitleSlide(title, theme, n) ==
    [id |-> NanoId(n),
     title |-> title,
     contents |->
        << Element(NanoId(n + 1), "title", title, 50, 50, Undef,
                   [fontSize |-> "3rem", fontWeight |-> "bold",
                    color |-> theme.colors.primary, alignment |-> "center"]) >>,
     theme |-> theme,
     transition |-> "fade",
     background |->
        [type |-> "gradient",
         value |-> "linear-gradient(135deg, " \o TemplateString(theme.colors.background)
                   \o " 0%, " \o TemplateString(theme.colors.primary) \o "10 100%)"]]

TypeError == Err("TypeError", 0)

\* a TypeError inside generatePresentationFromAnalysis
GenerateThrows(an, custom) ==
    LET sc == Get(an, "structuredContent") IN
    \/ (custom = Undef /\ Get(an, "colorPalette").k \in {"undefined", "null"})
    \/ sc.k \in {"undefined", "null"}
    \/ ~IsArray(Get(sc, "sections"))
    \/ \E i \in 1..Len(Elements(Get(sc, "sections"))) :
          SectionThrows(Elements(Get(sc, "sections"))[i])

\* mutant of generatePresentationFromAnalysis: the title slide is left out
generatePresentationWithoutTitleSlide(an, custom, n) ==
    LET theme == SelectTheme(an, custom, n)
        sections == Elements(Get(Get(an, "structuredContent"), "sections"))
    IN  Return([id |-> NanoId(n), title |-> Get(Get(an, "structuredContent"), "title"),
                slides |-> ContentSlides(sections, theme, 1, n + 1),
                theme |-> theme,
                metadata |-> [description |-> "AI-generated presentation from uploaded content"],
                settings |-> [autoAdvance |-> FALSE, showControls |-> TRUE]])

\* lines 159-221; n is the first identifier nanoid hands out
generatePresentationFromAnalysis(an, custom, n) ==
    IF GenerateThrows(an, custom) THEN Throw(TypeError)
    ELSE
    LET n1 == IF UsesPalette(an, custom) THEN n + 1 ELSE n
        theme == SelectTheme(an, custom, n)
        title == Get(Get(an, "structuredContent"), "title")
        sections == Elements(Get(Get(an, "structuredContent"), "sections"))
    IN  Return([id |-> NanoId(n1 + 2 + SectionsIds(sections)),
                title |-> title,
                slides |-> <<TitleSlide(title, theme, n1)>>
                           \o ContentSlides(sections, theme, 1, n1 + 2),
                theme |-> theme,
                metadata |-> [description |-> "AI-generated presentation from uploaded content"],
                settings |-> [autoAdvance |-> FALSE, showControls |-> TRUE]])

(***************************************************************************)
(* A run of the slide generator on a typed GeminiAnalysisResult.           *)
(***************************************************************************)
SeqsUpTo(S, n) == UNION {[1..m -> S] : m \in 0..n}

TypedSections ==
    {MkObj([heading |-> Str("Intro"), bullets |-> Arr(<<>>)]),
     MkObj([heading |-> Str("Plan"), bullets |-> Arr(<<Str("first"), Str("second")>>),
            images |-> Arr(<<Str("a chart")>>)]),
     MkObj([heading |-> Str(""), content |-> Str("body text"),
            bullets |-> Arr(<<Str("only")>>), images |-> Arr(<<>>)])}

\* "#111111", "#222222", ...
ColorAt(i) ==
    Str("#" \o ToString(i) \o ToString(i) \o ToString(i)
            \o ToString(i) \o ToString(i) \o ToString(i))
GoodPalette(len) == [i \in 1..len |-> ColorAt(i)]

\* palettes of every length up to MaxPaletteLen, with at most one empty or null entry
Palettes ==
    UNION {{GoodPalette(len)} \cup
           {[GoodPalette(len) EXCEPT ![j] = bad] : j \in 1..len, bad \in {Str(""), Null}} :
           len \in 0..MaxPaletteLen}

SuggestedThemes == {"modern", "minimal", "creative", "classic", "neon"}

BrandTheme ==
    [id |-> "brand", name |-> "Brand",
     colors |-> Colors(Str("#aa0000"), Str("#00aa00"), Str("#0000aa"),
                       Str("#eeeeee"), Str("#101010")),
     fonts |-> Fonts("Arial, sans-serif", "Arial, sans-serif"),
     layout |-> "classic"]

TypedAnalyses ==
    {MkObj([structuredContent |-> MkObj([title |-> Str("T"), sections |-> Arr(secs)]),
            suggestedTheme |-> Str(st),
            colorPalette |-> Arr(pal),
            confidence |-> Num(1)]) :
        secs \in SeqsUpTo(TypedSections, MaxSections),
        st \in SuggestedThemes,
        pal \in Palettes}

\* generatePresentationFromAnalysis(analysis, customTheme) is called
Generate ==
    /\ gpc = "ready"
    /\ presentation' = generatePresentationFromAnalysis(analysis, customTheme, seed)
    /\ gpc' = "done"
    /\ UNCHANGED <<analysis, customTheme, seed>>
    /\ UNCHANGED <<retryVars, routeVars, otherVars>>

RetryOff ==
    /\ caller = "none"
    /\ maxRetries = DefaultMaxRetries
    /\ baseDelayMs = DefaultBaseDelayMs
    /\ pc = "idle"
    /\ attempt = 1
    /\ trace = <<>>
    /\ result = NoValue
    /\ error = NoError
    /\ rpc = "none"
    /\ hasKey = TRUE
    /\ hasImage = TRUE
    /\ response = NoResponse

InitGen ==
    /\ RetryOff
    /\ PairOff
    /\ LayoutOff
    /\ SanOff
    /\ MoreOff
    /\ gpc = "ready"
    /\ analysis \in TypedAnalyses
    /\ customTheme \in {Undef, BrandTheme}
    /\ seed \in 0..MaxSeed
    /\ presentation = NoValue

NextGen == Generate

SpecGen == InitGen /\ [][NextGen]_vars

(***************************************************************************)
(* lib/slide-generator.ts: optimizeSlideLayout (lines 223-279).            *)
(***************************************************************************)
MaxElements == 3
MaxBullets == 7
MaxImages == 5
MaxPasses == 2

\* mutant of TypePriority: text is given the priority of bullet, and bullet that of text
TypePriorityTextFirst(type) ==
    CASE type = "title" -> 1
      [] type = "subtitle" -> 2
      [] type = "text" -> 3
      [] type = "bullet" -> 4
      [] type = "image" -> 5
      [] type = "code" -> 6
      [] type = "chart" -> 7
      [] OTHER -> 10

\* lines 228-237: typePriority[type] || 10
TypePriority(type) ==
    CASE type = "title" -> 1
      [] type = "subtitle" -> 2
      [] type = "bullet" -> 3
      [] type = "text" -> 4
      [] type = "image" -> 5
      [] type = "code" -> 6
      [] type = "chart" -> 7
      [] OTHER -> 10

\* the elements of one priority, in the order they have in contents
WithPriority(contents, p) == SelectSeq(contents, LAMBDA c : TypePriority(c.type) = p)

Reverse(seq) == [i \in 1..Len(seq) |-> seq[Len(seq) + 1 - i]]

\* mutant of SortContents: a sort that is not stable, elements of equal priority swap
SortContentsReversingTies(contents) ==
    Reverse(WithPriority(contents, 1)) \o Reverse(WithPriority(contents, 2))
    \o Reverse(WithPriority(contents, 3)) \o Reverse(WithPriority(contents, 4))
    \o Reverse(WithPriority(contents, 5)) \o Reverse(WithPriority(contents, 6))
    \o Reverse(WithPriority(contents, 7)) \o Reverse(WithPriority(contents, 10))

\* line 237: Array.prototype.sort by priority, which is stable
SortContents(contents) ==
    WithPriority(contents, 1) \o WithPriority(contents, 2)
    \o WithPriority(contents, 3) \o WithPriority(contents, 4)
    \o WithPriority(contents, 5) \o WithPriority(contents, 6)
    \o WithPriority(contents, 7) \o WithPriority(contents, 10)

\* mutant of CursorStep: a subtitle advances currentY as a title does
CursorStepSubtitleAsTitle(type) ==
    CASE type = "title" -> 20
      [] type = "subtitle" -> 20
      [] type = "bullet" -> 12
      [] type = "text" -> 15
      [] OTHER -> 0

\* lines 244-267: what an element adds to currentY
CursorStep(type) ==
    CASE type = "title" -> 20
      [] type = "subtitle" -> 15
      [] type = "bullet" -> 12
      [] type = "text" -> 15
      [] OTHER -> 0

RECURSIVE CurrentY(_, _)
\* lines 240-267: currentY when element i of the sorted contents is reached
CurrentY(sorted, i) ==
    IF i <= 1 THEN 15 ELSE CurrentY(sorted, i - 1) + CursorStep(sorted[i - 1].type)

\* lines 242-267: newPosition
NewPosition(content, currentY) ==
    CASE content.type \in {"title", "subtitle"} -> [x |-> 50, y |-> currentY]
      [] content.type \in {"bullet", "text"} -> [x |-> 15, y |-> currentY]
      [] content.type = "image" -> [x |-> 70, y |-> 25]
      [] OTHER -> content.position

\* lines 223-279: the slide returned
optimizeSlideLayout(slide) ==
    LET optimizedContents == SortContents(slide.contents)
    IN  [slide EXCEPT !.contents =
            [i \in 1..Len(optimizedContents) |->
                [optimizedContents[i] EXCEPT
                    !.position = NewPosition(optimizedContents[i],
                                             CurrentY(optimizedContents, i))]]]

\* mutant of ArgumentAfterOptimize: slide.contents.sort(...) sorts the argument's array
ArgumentSortedInPlace(slide) == [slide EXCEPT !.contents = SortContents(slide.contents)]

\* the argument after the call: the sort works on the copy [...slide.contents] (line
\* 225), positions on the copy { ...content.position } (line 242), and the elements and
\* the slide returned are new objects (lines 269-278)
ArgumentAfterOptimize(slide) == slide

(***************************************************************************)
(* A layout run: a slide, built from a section or handed in, is optimized  *)
(* up to MaxPasses times, each pass on what the pass before returned.      *)
(***************************************************************************)
ElementTypes == {"title", "subtitle", "bullet", "text", "image", "code", "chart", "video"}
Positions == {[x |-> 10, y |-> 90], [x |-> 50, y |-> 20]}

\* element j of a slide handed in
SlideElement(j, type, position) ==
    [id |-> "e" \o ToString(j), type |-> type, content |-> Str("c" \o ToString(j)),
     position |-> position,
     size |-> IF type = "image" THEN [width |-> 25, height |-> 20] ELSE Undef,
     style |-> IF type = "image" THEN Undef ELSE [fontSize |-> "1rem", alignment |-> "left"]]

SlidesHandedIn ==
    {[id |-> "s1", title |-> Str("A slide"),
      contents |-> [j \in 1..Len(ts) |-> SlideElement(j, ts[j][1], ts[j][2])],
      theme |-> DEFAULT_THEMES[2], transition |-> "fade",
      background |-> [type |-> "color", value |-> "#f9fafb"]] :
        ts \in SeqsUpTo(ElementTypes \X Positions, MaxElements)}

\* a section with nb bullets and ni images
LayoutSection(nb, ni) ==
    MkObj([heading |-> Str("Plan"),
           bullets |-> Arr([b \in 1..nb |-> Str("bullet " \o ToString(b))]),
           images |-> Arr([m \in 1..ni |-> Str("image " \o ToString(m))])])

LayoutSections == {LayoutSection(nb, ni) : nb \in 0..MaxBullets, ni \in 0..MaxImages}

\* the slide the next optimizeSlideLayout call is given
LastLayout == IF layouts = <<>> THEN lslide ELSE layouts[Len(layouts)]

\* createSlideFromContent(section, theme, 1)
CreateSlide ==
    /\ lpc = "section"
    /\ lslide' = createSlideFromContent(lsection, DEFAULT_THEMES[1], 1, 0)
    /\ lpc' = "slide"
    /\ UNCHANGED <<lsection, layouts>>
    /\ UNCHANGED <<retryVars, routeVars, genVars, pairVars, sanVars, moreVars>>

\* optimizeSlideLayout(slide), slide being what the pass before returned
Optimize ==
    /\ lpc = "slide"
    /\ Len(layouts) < MaxPasses
    /\ IF layouts = <<>>
       THEN /\ lslide' = ArgumentAfterOptimize(lslide)
            /\ layouts' = <<optimizeSlideLayout(lslide)>>
       ELSE /\ lslide' = lslide
            /\ layouts' = Append([layouts EXCEPT ![Len(layouts)] = ArgumentAfterOptimize(@)],
                                 optimizeSlideLayout(LastLayout))
    /\ UNCHANGED <<lpc, lsection>>
    /\ UNCHANGED <<retryVars, routeVars, genVars, pairVars, sanVars, moreVars>>

InitLayout ==
    /\ RetryOff
    /\ GenOff
    /\ PairOff
    /\ SanOff
    /\ MoreOff
    /\ layouts = <<>>
    /\ \/ /\ lpc = "section"
          /\ lsection \in LayoutSections
          /\ lslide = NoValue
       \/ /\ lpc = "slide"
          /\ lsection = NoValue
          /\ lslide \in SlidesHandedIn

NextLayout ==
    \/ CreateSlide
    \/ Optimize

SpecLayout == InitLayout /\ [][NextLayout]_vars

(***************************************************************************)
(* Two retryWithBackoff calls in flight at once.  The event loop runs one  *)
(* step of one call at a time; a call gives way at await operation() and   *)
(* at await sleep(delayMs).                                                *)
(***************************************************************************)
MaxPairRetries == 2
Calls == {1, 2}

\* what the model call of a concurrent analyzeImageWithGeminiPro can do
PairModelOutcomes ==
    {Text(JsonStringify(GoodObject)), Text("no json here"), Throw(TooManyRequestsError)}

\* the locals of one call when it starts
StartedCall(kind, maxR, base) ==
    [kind |-> kind, maxRetries |-> maxR, baseDelayMs |-> base, pc |-> "loop",
     attempt |-> 1, trace |-> <<>>, result |-> NoValue, error |-> NoError]

StartedCalls ==
    {StartedCall("generic", maxR, DefaultBaseDelayMs) : maxR \in 0..MaxPairRetries}
    \cup {StartedCall("analyze", AnalyzeMaxRetries, AnalyzeBaseDelayMs)}

\* mutant of AttemptScope: attempt declared outside the function, one counter for all calls
AttemptScopeModule(c) == 1

\* line 76: `let attempt` is a local of the call; the call whose counter call c uses
AttemptScope(c) == c

AttemptOf(c) == calls[AttemptScope(c)].attempt

\* line 76, condition true, and line 78, in call c
PairInvoke(c) ==
    /\ calls[c].pc = "loop"
    /\ AttemptOf(c) <= calls[c].maxRetries
    /\ calls' = [calls EXCEPT ![c].pc = "awaiting",
                              ![c].trace = Append(@, InvokeEvent(AttemptOf(c)))]
    /\ UNCHANGED <<retryVars, routeVars, genVars, layoutVars, sanVars, moreVars>>

\* line 76, condition false, and line 96, in call c
PairExhausted(c) ==
    /\ calls[c].pc = "loop"
    /\ AttemptOf(c) > calls[c].maxRetries
    /\ calls' = [calls EXCEPT ![c].pc = "rejected", ![c].error = MaxRetriesExceeded]
    /\ UNCHANGED <<retryVars, routeVars, genVars, layoutVars, sanVars, moreVars>>

\* lines 78-94, in call c
PairSettle(c) ==
    /\ calls[c].pc = "awaiting"
    /\ \E raw \in (IF calls[c].kind = "generic" THEN GenericOutcomes ELSE PairModelOutcomes) :
         LET o == IF calls[c].kind = "generic" THEN raw ELSE AnalyzeOperation(raw) IN
         IF o.kind = "return"
         THEN calls' = [calls EXCEPT ![c].pc = "resolved",
                                     ![c].result = o.value,
                                     ![c].trace = Append(@, SettleEvent(raw, o))]
         ELSE IF ShouldRetry(o.error, AttemptOf(c), calls[c].maxRetries)
              THEN calls' = [calls EXCEPT
                        ![c].pc = "sleeping",
                        ![c].trace = @ \o <<SettleEvent(raw, o),
                                            SleepEvent(BackoffDelay(calls[c].baseDelayMs,
                                                                    AttemptOf(c)))>>]
              ELSE calls' = [calls EXCEPT ![c].pc = "rejected",
                                          ![c].error = o.error,
                                          ![c].trace = Append(@, SettleEvent(raw, o))]
    /\ UNCHANGED <<retryVars, routeVars, genVars, layoutVars, sanVars, moreVars>>

\* lines 89-90, in call c
PairTimerFires(c) ==
    /\ calls[c].pc = "sleeping"
    /\ SleepResolves
    /\ calls' = [calls EXCEPT ![c].pc = "loop",
                              ![c].trace = Append(@, WakeEvent),
                              ![AttemptScope(c)].attempt = @ + 1]
    /\ UNCHANGED <<retryVars, routeVars, genVars, layoutVars, sanVars, moreVars>>

InitPair ==
    /\ RetryOff
    /\ GenOff
    /\ LayoutOff
    /\ SanOff
    /\ MoreOff
    /\ calls \in [Calls -> StartedCalls]

NextPair ==
    \/ \E c \in Calls : PairInvoke(c)
    \/ \E c \in Calls : PairExhausted(c)
    \/ \E c \in Calls : PairSettle(c)
    \/ \E c \in Calls : PairTimerFires(c)

SpecPair == InitPair /\ [][NextPair]_vars

(***************************************************************************)
(* lib/utils.ts and hooks/useSlideGeneration.ts: sanitizeInput.            *)
(***************************************************************************)
MaxInputLength == 1000
MaxChunks == 3

\* mutant of RemoveAngleBrackets: replace(/[<>]/, '') without the g flag, first match only
RemoveFirstAngleBracket(s) ==
    LET hits == {i \in 1..Len(s) : Char(s, i) \in {"<", ">"}}
    IN  IF hits = {} THEN s
        ELSE SubSeq(s, 1, Min(hits) - 1) \o SubSeq(s, Min(hits) + 1, Len(s))

RECURSIVE RemoveAngleBrackets(_)
\* replace(/[<>]/g, '')
RemoveAngleBrackets(s) ==
    LET hits == {i \in 1..Len(s) : Char(s, i) \in {"<", ">"}}
    IN  IF hits = {} THEN s
        ELSE SubSeq(s, 1, Min(hits) - 1)
             \o RemoveAngleBrackets(SubSeq(s, Min(hits) + 1, Len(s)))

UpperCaseLetters == "ABCDEFGHIJKLMNOPQRSTUVWXYZ"
LowerCaseLetters == "abcdefghijklmnopqrstuvwxyz"

\* the i flag: letters compare without case
LowerCase(c) ==
    IF \E i \in 1..26 : Char(UpperCaseLetters, i) = c
    THEN Char(LowerCaseLetters, CHOOSE i \in 1..26 : Char(UpperCaseLetters, i) = c)
    ELSE c

MatchesIgnoreCaseAt(s, i, pattern) ==
    /\ i + Len(pattern) - 1 <= Len(s)
    /\ \A k \in 1..Len(pattern) : LowerCase(Char(s, i + k - 1)) = Char(pattern, k)

RECURSIVE RemoveJavascript(_)
\* replace(/javascript:/gi, ''): the matches from left to right, in one pass
RemoveJavascript(s) ==
    LET hits == {i \in 1..Len(s) : MatchesIgnoreCaseAt(s, i, "javascript:")}
    IN  IF hits = {} THEN s
        ELSE SubSeq(s, 1, Min(hits) - 1)
             \o RemoveJavascript(SubSeq(s, Min(hits) + Len("javascript:"), Len(s)))

\* substring(0, end)
Substring(s, end) == IF Len(s) <= end THEN s ELSE SubSeq(s, 1, end)

\* part_010 lines 28-38, useSlideGeneration.ts lines 7-17
sanitizeInput(in) ==
    IF ~Truthy(in) \/ in.k # "string" THEN Str("")
    ELSE Str(Substring(RemoveJavascript(RemoveAngleBrackets(Trim(in.s))), MaxInputLength))

(***************************************************************************)
(* A call of sanitizeInput.                                                *)
(***************************************************************************)
RECURSIVE Repeat(_, _)
\* String.prototype.repeat
Repeat(s, n) ==
    IF n = 0 THEN ""
    ELSE LET half == Repeat(s, n \div 2)
         IN  IF n % 2 = 0 THEN half \o half ELSE half \o half \o s

Chunks == {"<", ">", " ", "a", "script", "java", "javascript:", "JavaScript:"}

ShortInputs == {Join(chunks, "") : chunks \in SeqsUpTo(Chunks, MaxChunks)}

\* the input of the test of api-helpers.test.ts, line 47
ScriptInput == "<script>alert(\"xss\")</script>Create a presentation"

LongInputs ==
    {Repeat("a", n) : n \in {MaxInputLength - 1, MaxInputLength, MaxInputLength + 1,
                             2 * MaxInputLength}}
    \cup {"<" \o Repeat("a", MaxInputLength) \o "b",
          Repeat("a", MaxInputLength - 1) \o "<b>c",
          " " \o Repeat("a", MaxInputLength) \o "<script>",
          Repeat("a", MaxInputLength - 5) \o "javascript:bcdefgh"}

SanitizeInputs ==
    {Str(s) : s \in ShortInputs \cup LongInputs \cup {ScriptInput}}
    \cup {Undef, Null, Num(0), Num(42), Arr(<<>>), Arr(<<Str("<b>")>>), MkObj([text |-> Str("<b>")])}

\* sanitizeInput(input) is called
Sanitize ==
    /\ spc = "ready"
    /\ output' = sanitizeInput(input)
    /\ spc' = "done"
    /\ UNCHANGED input
    /\ UNCHANGED <<retryVars, routeVars, genVars, pairVars, layoutVars, moreVars>>

InitSan ==
    /\ RetryOff
    /\ GenOff
    /\ PairOff
    /\ LayoutOff
    /\ MoreOff
    /\ spc = "ready"
    /\ input \in SanitizeInputs
    /\ output = NoValue

NextSan == Sanitize

SpecSan == InitSan /\ [][NextSan]_vars

(***************************************************************************)
(* hooks/useAutoSave.ts: one mounted useAutoSave instance.  A render with  *)
(* changed dependencies makes a new debouncedSave (useCallback, line 58)   *)
(* and re-runs the effect (lines 61-69): the cleanup cancels the timer of  *)
(* the debouncedSave before, the effect arms the new one.  Every closure   *)
(* keeps the dependencies of the render that made it.                      *)
(***************************************************************************)
MaxChanges == 2
MaxForceSaves == 2

DependencyArrays == {<<Str("a")>>, <<Str("b")>>, <<Null>>, <<Undef>>}

\* JSON.stringify of an array: an undefined element is written null
StringifyDependencies(deps) ==
    "[" \o Join([i \in 1..Len(deps) |->
                   IF deps[i].k = "undefined" THEN "null" ELSE JsonStringify(deps[i])], ",")
        \o "]"

\* the history kept: how many renders changed the dependencies, how many times
\* forceSave and onSave were called, how many timer expiries returned at line 46, and
\* what the last onSave that succeeded had saved
NoSaves == [changes |-> 0, forceSaves |-> 0, onSaves |-> 0, unchanged |-> 0, saved |-> ""]

\* an armed timer and the dependencies its debouncedSave closes over
Timer(deps) == [dependencies |-> deps]

\* an onSave call awaited by the closure "by"; snapshot is the history's note of the
\* serialized dependencies the call saves
OnSaveCall(id, by, deps, currentData) ==
    [id |-> id, by |-> by, dependencies |-> deps, currentData |-> currentData,
     snapshot |-> StringifyDependencies(deps)]

\* mutant of ShouldSave: the comparison with lastSavedRef.current is left out
ShouldSaveUnchangedToo(en, saving, currentData, lastSaved) == en /\ ~saving

\* lines 41-46: the two early returns of the debounced function
ShouldSave(en, saving, currentData, lastSaved) ==
    /\ en
    /\ ~saving
    /\ currentData # lastSaved

\* a render with changed dependencies, and its effect (lines 61-69)
ChangeDependencies ==
    /\ apc = "mounted"
    /\ saveLog.changes < MaxChanges
    /\ \E deps \in DependencyArrays \ {dependencies} :
          /\ dependencies' = deps
          /\ timeoutId' = IF enabled THEN Timer(deps) ELSE NoValue
          /\ saveLog' = [saveLog EXCEPT !.changes = @ + 1]
    /\ UNCHANGED <<apc, enabled, lastSavedRef, isSavingRef, onSaveCalls>>
    /\ UNCHANGED <<retryVars, routeVars, genVars, pairVars, layoutVars, sanVars, breakerVars>>

\* lines 22 and 40-50: the debounce timer fires, up to await onSave()
DebounceFires ==
    /\ apc = "mounted"
    /\ timeoutId # NoValue
    /\ timeoutId' = NoValue
    /\ LET currentData == StringifyDependencies(timeoutId.dependencies)
           id == saveLog.onSaves + 1
       IN  IF ShouldSave(enabled, isSavingRef, currentData, lastSavedRef)
           THEN /\ isSavingRef' = TRUE
                /\ onSaveCalls' = onSaveCalls \cup
                      {OnSaveCall(id, "debouncedSave", timeoutId.dependencies, currentData)}
                /\ saveLog' = [saveLog EXCEPT !.onSaves = id]
           ELSE /\ saveLog' = IF enabled /\ ~isSavingRef
                               THEN [saveLog EXCEPT !.unchanged = @ + 1]
                               ELSE saveLog
                /\ UNCHANGED <<isSavingRef, onSaveCalls>>
    /\ UNCHANGED <<apc, enabled, dependencies, lastSavedRef>>
    /\ UNCHANGED <<retryVars, routeVars, genVars, pairVars, layoutVars, sanVars, breakerVars>>

\* lines 71-73: forceSave of the latest render is called, up to await onSave()
ForceSave ==
    /\ apc = "mounted"
    /\ saveLog.forceSaves < MaxForceSaves
    /\ timeoutId' = NoValue
    /\ LET id == saveLog.onSaves + 1
       IN  /\ onSaveCalls' = onSaveCalls \cup {OnSaveCall(id, "forceSave", dependencies, NoValue)}
           /\ saveLog' = [saveLog EXCEPT !.onSaves = id, !.forceSaves = @ + 1]
    /\ UNCHANGED <<apc, enabled, dependencies, lastSavedRef, isSavingRef>>
    /\ UNCHANGED <<retryVars, routeVars, genVars, pairVars, layoutVars, sanVars, breakerVars>>

\* lines 51 and 55-57, or line 74: the promise of onSave is fulfilled
OnSaveResolves(c) ==
    /\ apc = "mounted"
    /\ c \in onSaveCalls
    /\ onSaveCalls' = onSaveCalls \ {c}
    /\ IF c.by = "debouncedSave"
       THEN /\ lastSavedRef' = c.currentData
            /\ isSavingRef' = FALSE
       ELSE /\ lastSavedRef' = StringifyDependencies(c.dependencies)
            /\ UNCHANGED isSavingRef
    /\ saveLog' = [saveLog EXCEPT !.saved = c.snapshot]
    /\ UNCHANGED <<apc, enabled, dependencies, timeoutId>>
    /\ UNCHANGED <<retryVars, routeVars, genVars, pairVars, layoutVars, sanVars, breakerVars>>

\* lines 52-57, or the await of line 73 throws: the promise of onSave is rejected
OnSaveRejects(c) ==
    /\ apc = "mounted"
    /\ c \in onSaveCalls
    /\ onSaveCalls' = onSaveCalls \ {c}
    /\ isSavingRef' = IF c.by = "debouncedSave" THEN FALSE ELSE isSavingRef
    /\ UNCHANGED <<apc, enabled, dependencies, lastSavedRef, timeoutId, saveLog>>
    /\ UNCHANGED <<retryVars, routeVars, genVars, pairVars, layoutVars, sanVars, breakerVars>>

\* the hook is mounted: the first render and its effect
InitSave ==
    /\ RetryOff
    /\ GenOff
    /\ PairOff
    /\ LayoutOff
    /\ SanOff
    /\ BreakerOff
    /\ apc = "mounted"
    /\ enabled \in BOOLEAN
    /\ dependencies \in DependencyArrays
    /\ lastSavedRef = ""
    /\ isSavingRef = FALSE
    /\ timeoutId = IF enabled THEN Timer(dependencies) ELSE NoValue
    /\ onSaveCalls = {}
    /\ saveLog = NoSaves

NextSave ==
    \/ ChangeDependencies
    \/ DebounceFires
    \/ ForceSave
    \/ \E c \in onSaveCalls : OnSaveResolves(c)
    \/ \E c \in onSaveCalls : OnSaveRejects(c)

SpecSave == InitSave /\ [][NextSave]_vars

\* auto-save enabled, onSave always succeeding
InitSaveLive == InitSave /\ enabled

NextSaveLive ==
    \/ ChangeDependencies
    \/ DebounceFires
    \/ ForceSave
    \/ \E c \in onSaveCalls : OnSaveResolves(c)

\* an armed timer fires, and a promise onSave returned is settled; renders and forceSave
\* calls come as the user makes them
SaveFairness ==
    /\ WF_vars(DebounceFires)
    /\ WF_vars(\E c \in onSaveCalls : OnSaveResolves(c))

SpecSaveLive == InitSaveLive /\ [][NextSaveLive]_vars /\ SaveFairness


(***************************************************************************)
(* The slide generator run on what the validator of                        *)
(* analyzeImageWithGeminiPro lets through (lib/mongodb.ts lines 194-213):  *)
(* parsed JSON, of which only the fields the validator reads are checked.  *)
(***************************************************************************)
\* entries of sections as JSON.parse can deliver them
ParsedSections ==
    {MkObj([heading |-> Str("Plan"), bullets |-> Arr(<<Str("first")>>)]),
     MkObj([heading |-> Str("Intro")]),
     Null,
     Str("Summary")}

ParsedAnalyses ==
    {MkObj([structuredContent |-> MkObj([title |-> t, sections |-> s]),
            suggestedTheme |-> st,
            colorPalette |-> cp]) :
        t \in {Str("T"), Str("")},
        s \in {Arr(secs) : secs \in SeqsUpTo(ParsedSections, MaxSections)} \cup {Undef},
        st \in {Str("modern"), Str("neon")},
        cp \in {Arr(<<>>), Arr(GoodPalette(3))}}

\* lines 194-210: validationErrors.length = 0
ValidatedAnalyses == {v \in ParsedAnalyses : Len(ValidationErrors(v)) = 0}

InitAssemble ==
    /\ RetryOff
    /\ PairOff
    /\ LayoutOff
    /\ SanOff
    /\ MoreOff
    /\ gpc = "ready"
    /\ analysis \in ValidatedAnalyses
    /\ customTheme \in {Undef, BrandTheme}
    /\ seed \in 0..MaxSeed
    /\ presentation = NoValue

SpecAssemble == InitAssemble /\ [][NextGen]_vars

(***************************************************************************)
(* lib/errors.ts: CircuitBreaker (lines 261-311).  execute runs without    *)
(* interruption up to its await of fn(), and from the settlement of fn()   *)
(* to its end; the clock is Date.now(), in units of the timeout's.         *)
(***************************************************************************)
MaxThreshold == 2
MaxTimeout == 2
MaxClock == 4
MaxExecutes == 4
MaxOverlap == 2

\* an execute call awaiting fn(); trial: the breaker was HALF_OPEN when fn was invoked
Executing(id, trial) == [id |-> id, trial |-> trial]


\* new Date() at clock value t
DateAt(t) == [k |-> "date", time |-> t]

\* mutant of TimeoutElapsed: the breaker forgets how long it has been open
TimeoutElapsedAtOnce(last, clock, limit) == Truthy(last)

\* lines 273-274: this.lastFailureTime && Date.now() - this.lastFailureTime.getTime() > this.timeout
TimeoutElapsed(last, clock, limit) ==
    /\ Truthy(last)
    /\ clock - last.time > limit

\* mutant of Tripped: the breaker opens one failure late
TrippedAboveThreshold(count, limit) == count > limit

\* line 303: this.failures >= this.threshold
Tripped(count, limit) == count >= limit

\* lines 271-284: execute is called, up to await fn() or the throw of line 277
Execute ==
    /\ bpc = "constructed"
    /\ Len(breakerLog) + Cardinality(executing) < MaxExecutes
    /\ IF state = "OPEN" /\ ~TimeoutElapsed(lastFailureTime, now, timeout)
       THEN /\ breakerLog' = Append(breakerLog, "rejected")
            /\ UNCHANGED <<state, executing>>
       ELSE /\ state' = IF state = "OPEN" THEN "HALF_OPEN" ELSE state
            /\ executing' = executing \cup
                  {Executing(Len(breakerLog) + Cardinality(executing) + 1,
                             state' = "HALF_OPEN")}
            /\ UNCHANGED breakerLog
    /\ UNCHANGED <<bpc, threshold, timeout, failures, lastFailureTime, now>>
    /\ UNCHANGED <<retryVars, routeVars, genVars, pairVars, layoutVars, sanVars, saveVars>>

\* execute is called when no other call is awaiting fn()
ExecuteAlone ==
    /\ executing = {}
    /\ Execute

\* execute is called, other calls awaiting fn() or not
ExecuteOverlapping ==
    /\ Cardinality(executing) < MaxOverlap
    /\ Execute

\* lines 285-287 and 294-297: fn() is fulfilled, onSuccess
FnResolves(c) ==
    /\ bpc = "constructed"
    /\ c \in executing
    /\ executing' = executing \ {c}
    /\ failures' = 0
    /\ state' = "CLOSED"
    /\ breakerLog' = Append(breakerLog, "success")
    /\ UNCHANGED <<bpc, threshold, timeout, lastFailureTime, now>>
    /\ UNCHANGED <<retryVars, routeVars, genVars, pairVars, layoutVars, sanVars, saveVars>>

\* lines 288-291 and 299-306: fn() is rejected, onFailure
FnRejects(c) ==
    /\ bpc = "constructed"
    /\ c \in executing
    /\ executing' = executing \ {c}
    /\ failures' = failures + 1
    /\ lastFailureTime' = DateAt(now)
    /\ state' = IF Tripped(failures', threshold) THEN "OPEN" ELSE state
    /\ breakerLog' = Append(breakerLog, "failure")
    /\ UNCHANGED <<bpc, threshold, timeout, now>>
    /\ UNCHANGED <<retryVars, routeVars, genVars, pairVars, layoutVars, sanVars, saveVars>>

\* time passes
Tick ==
    /\ bpc = "constructed"
    /\ now < MaxClock
    /\ now' = now + 1
    /\ UNCHANGED <<bpc, threshold, timeout, state, failures, lastFailureTime, executing,
                   breakerLog>>
    /\ UNCHANGED <<retryVars, routeVars, genVars, pairVars, layoutVars, sanVars, saveVars>>

\* lines 262-269: new CircuitBreaker(threshold, timeout)
InitBreaker ==
    /\ RetryOff
    /\ GenOff
    /\ PairOff
    /\ LayoutOff
    /\ SanOff
    /\ SaveOff
    /\ bpc = "constructed"
    /\ threshold \in 1..MaxThreshold
    /\ timeout \in 1..MaxTimeout
    /\ state = "CLOSED"
    /\ failures = 0
    /\ lastFailureTime = Undef
    /\ now = 0
    /\ executing = {}
    /\ breakerLog = <<>>

\* calls executed one after another
NextBreaker ==
    \/ ExecuteAlone
    \/ \E c \in executing : FnResolves(c)
    \/ \E c \in executing : FnRejects(c)
    \/ Tick

SpecBreaker == InitBreaker /\ [][NextBreaker]_vars

\* calls that overlap
NextOverlap ==
    \/ ExecuteOverlapping
    \/ \E c \in executing : FnResolves(c)
    \/ \E c \in executing : FnRejects(c)
    \/ Tick

SpecOverlap == InitBreaker /\ [][NextOverlap]_vars

(***************************************************************************)
(* Reading the history.                                                    *)
(***************************************************************************)
Settles == SelectSeq(trace, LAMBDA ev : ev.e = "settle")
Sleeps == SelectSeq(trace, LAMBDA ev : ev.e = "sleep")
\* what the operation did, invocation by invocation
Outcomes == [i \in 1..Len(Settles) |-> Settles[i].outcome]
\* what the model call did, invocation by invocation (the operation itself for "generic")
RawOutcomes == [i \in 1..Len(Settles) |-> Settles[i].raw]
\* the waits, in order
Delays == [i \in 1..Len(Sleeps) |-> Sleeps[i].ms]
Invocations == Len(SelectSeq(trace, LAMBDA ev : ev.e = "invoke"))
Settled == pc \in {"resolved", "rejected"}

\* a transient failure as the specification words it
TransientFailure(o) ==
    /\ o.kind = "throw"
    /\ \/ Includes(o.error.message, "rate limit")
       \/ Includes(o.error.message, "quota")
       \/ o.error.status = 429

NonTransientFailure(o) == o.kind = "throw" /\ ~TransientFailure(o)

AllTransient(outs) == \A i \in 1..Len(outs) : TransientFailure(outs[i])

\* C3: an operation that fails transiently k times in a row (k < maxRetries) and
\* then succeeds: the call resolves with the success value after exactly k+1
\* invocations, and wait i, baseDelay * 2^(i-1) ms long, lies between failed
\* invocation i and invocation i+1; as long as only transient failures were seen
\* and retries remain, the call has not settled.
C3_RetryThenSuccess ==
    LET outs == Outcomes
        k == Len(outs) - 1
    IN  /\ (AllTransient(outs) /\ Len(outs) < maxRetries) => ~Settled
        /\ (/\ Len(outs) >= 1
            /\ outs[Len(outs)].kind = "return"
            /\ AllTransient(SubSeq(outs, 1, k))
            /\ k < maxRetries)
           => /\ pc = "resolved"
              /\ result = outs[k + 1].value
              /\ Invocations = k + 1
              /\ Len(trace) = 4 * k + 2
              /\ \A i \in 1..k :
                    /\ trace[4 * i - 3] = InvokeEvent(i)
                    /\ trace[4 * i - 2].e = "settle"
                    /\ trace[4 * i - 1] = SleepEvent(baseDelayMs * Pow2(i - 1))
                    /\ trace[4 * i] = WakeEvent
              /\ trace[4 * k + 1] = InvokeEvent(k + 1)
              /\ trace[4 * k + 2].e = "settle"

\* C3 witness: status 429 twice, then success, with base delay 1000: waits 1000, 2000
C3_Witness ==
    /\ caller = "generic"
    /\ pc = "resolved"
    /\ Outcomes = <<Throw(TooManyRequestsError), Throw(TooManyRequestsError),
                    Return(Str("done"))>>
    /\ Delays = <<1000, 2000>>
    /\ result = Str("done")

\* C4: a non-transient failure of the operation ends the call at once: the call is
\* rejected with that same error, the failing invocation is the last one and no wait
\* follows it; when it is the first failure there was exactly one invocation and no wait.
C4_NonTransientImmediate ==
    LET outs == Outcomes IN
    \A i \in 1..Len(outs) :
        NonTransientFailure(outs[i]) =>
            /\ i = Len(outs)
            /\ maxRetries >= 1
            /\ pc = "rejected"
            /\ error = outs[i].error
            /\ trace[Len(trace)].e = "settle"
            /\ Invocations = i
            /\ Len(Delays) = i - 1
            /\ (i = 1 => Invocations = 1 /\ Delays = <<>>)

\* C4 witness: a non-transient failure on the second attempt, after one transient one
C4_Witness ==
    /\ caller = "generic"
    /\ pc = "rejected"
    /\ Outcomes = <<Throw(RateLimitError), Throw(NetworkError)>>
    /\ error = NetworkError
    /\ Invocations = 2

\* C5 as stated: transient failures on every attempt until the retries are exhausted
\* reject the call with a 'max retries exceeded' failure.
C5_Original ==
    (pc = "rejected" /\ Len(Outcomes) >= 1 /\ AllTransient(Outcomes))
        => Includes(error.message, "Max retries exceeded")

\* C5 amended: transient failures on every one of the maxRetries >= 1 attempts reject
\* the call with the error of the last attempt, after exactly maxRetries invocations
\* and maxRetries - 1 waits; 'Max retries exceeded' is raised only when maxRetries < 1,
\* without any invocation.
C5_ExhaustionRethrowsLast ==
    LET outs == Outcomes IN
    /\ (Len(outs) >= 1 /\ AllTransient(outs) /\ Len(outs) = maxRetries)
        => /\ pc = "rejected"
           /\ error = outs[Len(outs)].error
           /\ Invocations = maxRetries
           /\ Len(Delays) = maxRetries - 1
    /\ (pc = "rejected" /\ Len(outs) >= 1 /\ AllTransient(outs))
        => Len(outs) = maxRetries /\ error = outs[Len(outs)].error
    /\ (pc = "rejected" /\ error = MaxRetriesExceeded)
        => maxRetries < 1 /\ Invocations = 0

\* C5 witness: three quota failures with maxRetries = 3
C5_Witness ==
    /\ caller = "generic"
    /\ maxRetries = 3
    /\ pc = "rejected"
    /\ Outcomes = <<Throw(QuotaOtherError), Throw(QuotaOtherError), Throw(QuotaOtherError)>>
    /\ error = QuotaOtherError

(***************************************************************************)
(* The analysis pipeline behind POST /api/gemini-vision.                   *)
(***************************************************************************)
\* the model call of invocation i answered, and the operation still threw:
\* a parse or validation failure
ParseOrValidationFailure(i) ==
    RawOutcomes[i].kind = "text" /\ Outcomes[i].kind = "throw"

ValidationPrefix == "AI response missing required fields: "

\* C6: a parse or validation failure (no JSON span, unparsable span, invalid object)
\* is terminal: analyzeImageWithGeminiPro rejects with it at once, the model call that
\* produced the text is the last one and no backoff wait follows; a failure on the
\* first answer means exactly one model call and no wait at all.
C6_ParseFailureNotRetried ==
    caller = "route" =>
    \A i \in 1..Len(Settles) :
        ParseOrValidationFailure(i) =>
            /\ \/ Outcomes[i].error = MalformedResponse
               \/ Outcomes[i].error = InvalidJSON
               \/ StartsAt(Outcomes[i].error.message, 1, ValidationPrefix)
            /\ ~FindJson(RawOutcomes[i].text).found => Outcomes[i].error = MalformedResponse
            /\ i = Len(Settles)
            /\ pc = "rejected"
            /\ error = Outcomes[i].error
            /\ trace[Len(trace)].e = "settle"
            /\ Invocations = i
            /\ Len(Delays) = i - 1
            /\ (i = 1 => Invocations = 1 /\ Delays = <<>>)

\* C6 witness: the first answer is "no json here"
C6_Witness ==
    /\ caller = "route"
    /\ pc = "rejected"
    /\ RawOutcomes = <<Text("no json here")>>
    /\ error = MalformedResponse
    /\ Invocations = 1

\* "exists": present and not null
Exists(v) == v.k \notin {"undefined", "null"}
NonEmpty(v) == Exists(v) /\ v # Str("")

\* occurrences of sub in s
CountSub(s, sub) == Cardinality({i \in 1..Len(s) : StartsAt(s, i, sub)})

\* the object the validator saw at invocation i (the answer's span parsed)
ParsedAt(i) == JsonParse(FindJson(RawOutcomes[i].text).m0)
Validated(i) ==
    /\ RawOutcomes[i].kind = "text"
    /\ FindJson(RawOutcomes[i].text).found
    /\ ParsedAt(i).kind = "return"

C8_FailureNeverMasked ==
    rpc = "responded" =>
        /\ pc = "rejected" => (~response.success /\ response.status >= 400)
        /\ response.success => (pc = "resolved" /\ response.analysis = result)

(***************************************************************************)
(* The slide generator.                                                    *)
(***************************************************************************)
Generated == gpc = "done" /\ presentation.kind = "return"
InputSections == Elements(Get(Get(analysis, "structuredContent"), "sections"))
InputTitle == Get(Get(analysis, "structuredContent"), "title")
InputPalette == Elements(Get(analysis, "colorPalette"))
InputSuggestedTheme == Get(analysis, "suggestedTheme")

\* the content values of a slide's elements, in order
ContentsOf(slide) == [i \in 1..Len(slide.contents) |-> slide.contents[i].content]

\* C1: for an analysis with n >= 0 sections the generator returns (does not throw) a
\* presentation of exactly n+1 slides: the first is the title slide, whose single
\* element is a 'title' holding structuredContent.title, and slide i+1 is built from
\* section i (its heading, then its bullets, then its images), in section order.
C1_TitleSlideThenSections ==
    gpc = "done" =>
        /\ presentation.kind = "return"
        /\ LET slides == presentation.value.slides
               n == Len(InputSections)
           IN  /\ Len(slides) = n + 1
               /\ Len(slides[1].contents) = 1
               /\ slides[1].contents[1].type = "title"
               /\ slides[1].contents[1].content = InputTitle
               /\ \A i \in 1..n :
                     LET sec == InputSections[i] IN
                     /\ slides[i + 1].title = Get(sec, "heading")
                     /\ slides[i + 1].contents[1].type = "title"
                     /\ ContentsOf(slides[i + 1]) =
                           <<Get(sec, "heading")>> \o Elements(Get(sec, "bullets"))
                           \o Elements(Get(sec, "images"))

\* C1 witness: two different sections give three slides
C1_Witness ==
    /\ Generated
    /\ Len(InputSections) = 2
    /\ InputSections[1] # InputSections[2]
    /\ Len(presentation.value.slides) = 3

IsDefaultThemeId(v) == \E i \in 1..Len(DEFAULT_THEMES) : v = Str(DEFAULT_THEMES[i].id)

\* C2: the theme of the presentation (and of every slide) is the explicit theme when
\* one is passed; otherwise a theme synthesized from the palette when the palette has
\* at least 3 entries; otherwise the built-in theme whose id is suggestedTheme;
\* otherwise the first built-in theme, 'modern'.
C2_ThemePrecedence ==
    Generated =>
        LET th == presentation.value.theme
            slides == presentation.value.slides
            pal == InputPalette
        IN  /\ \A i \in 1..Len(slides) : slides[i].theme = th
            /\ IF customTheme # Undef THEN th = customTheme
               ELSE IF Len(pal) >= 3
                    THEN /\ th.name = "AI Generated Theme"
                         /\ StartsAt(th.id, 1, "custom-")
                         /\ Truthy(pal[1]) => th.colors.primary = pal[1]
                         /\ Truthy(pal[2]) => th.colors.secondary = pal[2]
                         /\ Truthy(pal[3]) => th.colors.accent = pal[3]
                    ELSE IF IsDefaultThemeId(InputSuggestedTheme)
                         THEN /\ Str(th.id) = InputSuggestedTheme
                              /\ \E i \in 1..Len(DEFAULT_THEMES) : th = DEFAULT_THEMES[i]
                         ELSE th = DEFAULT_THEMES[1] /\ th.id = "modern"

\* C2 witness: explicit theme, a palette of 3 or more and a known suggestedTheme at once
C2_Witness ==
    /\ Generated
    /\ customTheme = BrandTheme
    /\ Len(InputPalette) >= 3
    /\ InputSuggestedTheme = Str("classic")
    /\ presentation.value.theme = BrandTheme

\* C9 as stated: palette positions 0, 1, 2 become primary, secondary, accent; position
\* 3 the background ('#ffffff' when absent), position 4 the text ('#1e293b' when absent).
C9_Original ==
    (Generated /\ customTheme = Undef /\ Len(InputPalette) >= 3) =>
        LET c == presentation.value.theme.colors
            pal == InputPalette
        IN  /\ c.primary = pal[1]
            /\ c.secondary = pal[2]
            /\ c.accent = pal[3]
            /\ c.background = (IF Len(pal) >= 4 THEN pal[4] ELSE Str("#ffffff"))
            /\ c.text = (IF Len(pal) >= 5 THEN pal[5] ELSE Str("#1e293b"))
            /\ presentation.value.theme.layout = "modern"

\* C9 amended: positions 0, 1, 2 become primary, secondary, accent when the entry is
\* not empty (truthy), and '#2563eb', '#64748b', '#06b6d4' when it is empty or null;
\* position 3 is the background as it stands ('#ffffff' when the palette has no position
\* 3), position 4 the text as it stands ('#1e293b' when the palette has no position 4);
\* later entries are ignored; layout is 'modern'.
C9_PaletteMapping ==
    (Generated /\ customTheme = Undef /\ Len(InputPalette) >= 3) =>
        LET c == presentation.value.theme.colors
            pal == InputPalette
        IN  /\ c.primary = (IF Truthy(pal[1]) THEN pal[1] ELSE Str("#2563eb"))
            /\ c.secondary = (IF Truthy(pal[2]) THEN pal[2] ELSE Str("#64748b"))
            /\ c.accent = (IF Truthy(pal[3]) THEN pal[3] ELSE Str("#06b6d4"))
            /\ c.background = (IF Len(pal) >= 4 THEN pal[4] ELSE Str("#ffffff"))
            /\ c.text = (IF Len(pal) >= 5 THEN pal[5] ELSE Str("#1e293b"))
            /\ presentation.value.theme.layout = "modern"

\* C9 witness: the palette '#111111', '#222222', '#333333'
C9_Witness ==
    /\ Generated
    /\ customTheme = Undef
    /\ InputPalette = <<Str("#111111"), Str("#222222"), Str("#333333")>>
    /\ presentation.value.theme.colors =
          Colors(Str("#111111"), Str("#222222"), Str("#333333"),
                 Str("#ffffff"), Str("#1e293b"))

\* C10: without an explicit theme, the resolved theme has all five color fields
\* present as non-empty strings, also for palettes with empty or null entries.
C10_AllColorsPresent ==
    (Generated /\ customTheme = Undef) =>
        LET c == presentation.value.theme.colors IN
        \A f \in {"primary", "secondary", "accent", "background", "text"} :
            c[f].k = "string" /\ c[f].s # ""

(***************************************************************************)
(* The retry count, termination and the candidate JSON text.               *)
(***************************************************************************)
\* C16: maxRetries is the total number of attempts: the operation is never invoked more
\* than maxRetries times nor are there more than maxRetries - 1 waits; an operation
\* failing transiently on each of the n = maxRetries >= 1 attempts is invoked exactly n
\* times with exactly n - 1 waits and the call rejects; analyzeImageWithGeminiPro runs
\* with 3 attempts and base 2000 ms: at most 3 model calls, waits 2000 then 4000 ms.
C16_RetryCountIsTotalAttempts ==
    LET outs == Outcomes IN
    /\ Invocations <= maxRetries
    /\ Len(Delays) <= Max({0, maxRetries - 1})
    /\ (maxRetries >= 1 /\ Len(outs) = maxRetries /\ AllTransient(outs))
        => /\ pc = "rejected"
           /\ Invocations = maxRetries
           /\ Len(Delays) = maxRetries - 1
    /\ rpc \in {"analyzing", "responded"} /\ hasKey /\ hasImage
        => /\ maxRetries = 3
           /\ Invocations <= 3
           /\ \A i \in 1..Len(Delays) : Delays[i] = <<2000, 4000>>[i]
           /\ (Len(outs) = 3 /\ AllTransient(outs))
               => pc = "rejected" /\ Delays = <<2000, 4000>> /\ Invocations = 3

\* C16 witness: three model calls answered 429, the analysis rejected after 2000, 4000
C16_Witness ==
    /\ caller = "route"
    /\ pc = "rejected"
    /\ RawOutcomes = <<Throw(TooManyRequestsError), Throw(TooManyRequestsError),
                       Throw(TooManyRequestsError)>>
    /\ Invocations = 3
    /\ Delays = <<2000, 4000>>

\* C17: with every invocation settling and every timer firing, a retryWithBackoff call
\* that has started always ends up resolved or rejected.
C17_RunsToCompletion ==
    (pc \in {"loop", "awaiting", "sleeping"}) ~> (pc \in {"resolved", "rejected"})

\* C17 witness: a call settled after the longest run, MaxRetriesBound invocations
C17_Witness ==
    /\ caller = "generic"
    /\ pc \in {"resolved", "rejected"}
    /\ Invocations = 4
    /\ Len(Delays) = 3

\* a '{' with a later '}'
HasBraceSpan(text) ==
    \E p \in 1..Len(text) :
        Char(text, p) = "{" /\ \E q \in (p + 1)..Len(text) : Char(text, q) = "}"

\* the first '{' up to the last '}'
GreedySpan(text) ==
    SubSeq(text, Min({p \in 1..Len(text) : Char(text, p) = "{"}),
                 Max({q \in 1..Len(text) : Char(text, q) = "}"}))

\* an opening fence and a closing fence after it
HasFencedBlock(text) ==
    \E a \in 1..Len(text) :
        StartsAt(text, a, Fence) /\ \E b \in (a + 3)..Len(text) : StartsAt(text, b, Fence)

\* C18 as stated: without a brace span, a fenced code block supplies the candidate, and
\* MalformedResponse is raised only when there is neither a brace span nor a fenced block.
C18_Original ==
    caller = "route" =>
    \A i \in 1..Len(Settles) :
        RawOutcomes[i].kind = "text" =>
            LET t == RawOutcomes[i].text
                o == Outcomes[i]
            IN  /\ (~HasBraceSpan(t) /\ HasFencedBlock(t)) => o # Throw(MalformedResponse)
                /\ o = Throw(MalformedResponse) => (~HasBraceSpan(t) /\ ~HasFencedBlock(t))

\* C18 amended: the candidate is the greedy span from the first '{' to the last '}'
\* whenever the text has a '{' with a later '}', and it is what is parsed; without such
\* a span MalformedResponse is raised, fenced code block or not (the fence pattern
\* itself asks for a brace span); one JSON object in a fence after prose is parsed and
\* returned.
C18_CandidateSelection ==
    caller = "route" =>
    \A i \in 1..Len(Settles) :
        RawOutcomes[i].kind = "text" =>
            LET t == RawOutcomes[i].text
                o == Outcomes[i]
            IN  /\ o = Throw(MalformedResponse) <=> ~HasBraceSpan(t)
                /\ HasBraceSpan(t) =>
                      LET parsed == JsonParse(GreedySpan(t)) IN
                      /\ parsed.kind = "throw" <=> o = Throw(InvalidJSON)
                      /\ parsed.kind = "return" =>
                            \/ o = Return(parsed.value)
                            \/ /\ o.kind = "throw"
                               /\ StartsAt(o.error.message, 1, ValidationPrefix)
                /\ t = FencedText(GoodObject) => o = Return(GoodObject)

\* C18 witness: prose, then a fenced JSON object: the analysis resolves with the object
C18_Witness ==
    /\ caller = "route"
    /\ pc = "resolved"
    /\ RawOutcomes = <<Text(FencedText(GoodObject))>>
    /\ result = GoodObject

(***************************************************************************)
(* Content slides: the heading and the content of a section.               *)
(***************************************************************************)
\* the positions of a slide's elements of one type
ElementsOfType(sl, type) == {j \in 1..Len(sl.contents) : sl.contents[j].type = type}

\* C19: every content slide starts with its one 'title' element, taken from the
\* section heading; when the heading is missing or empty the title element and the
\* slide title are 'Slide n', n the 1-based position of the section.
C19_HeadingFallback ==
    Generated =>
        \A i \in 1..Len(InputSections) :
            LET sl == presentation.value.slides[i + 1]
                heading == Get(InputSections[i], "heading")
                expected == IF NonEmpty(heading) THEN heading
                            ELSE Str("Slide " \o ToString(i))
            IN  /\ ElementsOfType(sl, "title") = {1}
                /\ sl.contents[1].content = expected
                /\ sl.title = expected

\* C20: a section whose content field is present gives a slide with exactly one 'text'
\* element, carrying that content, right after the title element and before the
\* bullets; a section without content gives a slide without 'text' element.
C20_ContentTextElement ==
    Generated =>
        \A i \in 1..Len(InputSections) :
            LET sl == presentation.value.slides[i + 1]
                content == Get(InputSections[i], "content")
            IN  IF Exists(content)
                THEN /\ ElementsOfType(sl, "text") = {2}
                     /\ sl.contents[2].content = content
                     /\ \A j \in ElementsOfType(sl, "bullet") : j > 2
                ELSE ElementsOfType(sl, "text") = {}

(***************************************************************************)
(* The layout optimizer.                                                   *)
(***************************************************************************)
TypesOf(sl) == [j \in 1..Len(sl.contents) |-> sl.contents[j].type]
Layout(sl) == [j \in 1..Len(sl.contents) |-> <<sl.contents[j].id, sl.contents[j].position>>]

\* C11: optimizing an optimized slide changes nothing: every later pass returns the
\* content order and the element positions (indeed the slide) the first pass returned,
\* whatever the mix of element types, repeated or not repositioned.
C11_OptimizeIdempotent ==
    \A i \in 2..Len(layouts) :
        /\ Layout(layouts[i]) = Layout(layouts[i - 1])
        /\ layouts[i] = layouts[i - 1]

\* C11 witness: two bullets after an element of unknown type, reordered by pass one,
\* and optimized twice
C11_Witness ==
    /\ Len(layouts) = 2
    /\ TypesOf(lslide) = <<"video", "bullet", "bullet">>
    /\ TypesOf(layouts[1]) = <<"bullet", "bullet", "video">>
    /\ layouts[1].contents[1].id = "e2"

\* the argument and the result of pass i
PassInput(i) == IF i = 1 THEN lslide ELSE layouts[i - 1]

\* what optimizeSlideLayout may change, and nothing else, between slide a and result b
OnlyOrderAndPosition(a, b) ==
    /\ [b EXCEPT !.contents = a.contents] = a
    /\ Len(b.contents) = Len(a.contents)
    /\ \A j \in 1..Len(a.contents) :
          LET same == {m \in 1..Len(b.contents) : b.contents[m].id = a.contents[j].id}
          IN  /\ Cardinality(same) = 1
              /\ \A m \in same :
                    [b.contents[m] EXCEPT !.position = a.contents[j].position] = a.contents[j]

\* C12: optimizeSlideLayout leaves its argument as it was (the slide, its contents
\* sequence, every element), and its result holds the same elements, each id once,
\* with id, type, content, size and style unchanged, in a slide whose id, title, theme,
\* transition and background are unchanged.
C12_OptimizeFrame ==
    /\ [](\A i \in 1..Len(layouts) : OnlyOrderAndPosition(PassInput(i), layouts[i]))
    /\ [][lpc = "slide" =>
            /\ lslide' = lslide
            /\ \A i \in 1..Len(layouts) : layouts'[i] = layouts[i]]_vars

\* C12 witness: an image, a title and a chart handed in; the result starts with the title
C12_Witness ==
    /\ Len(layouts) = 1
    /\ TypesOf(lslide) = <<"image", "title", "chart">>
    /\ TypesOf(layouts[1]) = <<"title", "image", "chart">>
    /\ lslide.contents[1].id = "e1"

InRange(position) ==
    /\ 0 <= position.x /\ position.x <= 100
    /\ 0 <= position.y /\ position.y <= 100

\* C14: every element of a slide built by createSlideFromContent, and every element
\* optimizeSlideLayout repositioned, has x and y within 0..100, whatever the number of
\* bullets and images.
C14_PositionsInRange ==
    /\ lsection # NoValue /\ lslide # NoValue =>
          \A j \in 1..Len(lslide.contents) : InRange(lslide.contents[j].position)
    /\ \A i \in 1..Len(layouts) :
          \A j \in 1..Len(layouts[i].contents) :
              layouts[i].contents[j].type \in {"title", "subtitle", "bullet", "text", "image"}
                  => InRange(layouts[i].contents[j].position)

(***************************************************************************)
(* Concurrent calls.                                                       *)
(***************************************************************************)
EventsOf(c, e) == SelectSeq(calls[c].trace, LAMBDA ev : ev.e = e)
OutcomesOf(c) == [i \in 1..Len(EventsOf(c, "settle")) |-> EventsOf(c, "settle")[i].outcome]
DelaysOf(c) == [i \in 1..Len(EventsOf(c, "sleep")) |-> EventsOf(c, "sleep")[i].ms]
InvocationsOf(c) == Len(EventsOf(c, "invoke"))

Alone(pcv, inv, delays, res, err) ==
    [pc |-> pcv, invocations |-> inv, delays |-> delays, result |-> res, error |-> err]

RECURSIVE RunAlone(_, _, _, _)
\* retryWithBackoff run by itself from attempt att on an operation that does outs,
\* one after the other: where it stands once outs are used up
RunAlone(maxR, base, outs, att) ==
    IF att > maxR THEN Alone("rejected", 0, <<>>, NoValue, MaxRetriesExceeded)
    ELSE IF outs = <<>> THEN Alone("awaiting", 1, <<>>, NoValue, NoError)
    ELSE IF outs[1].kind = "return" THEN Alone("resolved", 1, <<>>, outs[1].value, NoError)
    ELSE IF IsRateLimit(outs[1].error) /\ att < maxR
         THEN LET rest == RunAlone(maxR, base, Tail(outs), att + 1)
              IN  [rest EXCEPT !.invocations = @ + 1,
                               !.delays = <<base * Pow2(att - 1)>> \o @]
         ELSE Alone("rejected", 1, <<>>, NoValue, outs[1].error)

\* C13: two calls interleaved at their suspension points: each call's attempt counter
\* counts its own wake-ups only, its delays are those of its own failures, and once it
\* has settled its invocations, delays, result and error are those of the call run by
\* itself on the outcomes its own operation had.
C13_CallsIndependent ==
    \A c \in Calls :
        LET alone == RunAlone(calls[c].maxRetries, calls[c].baseDelayMs, OutcomesOf(c), 1)
        IN  /\ calls[c].attempt = 1 + Len(EventsOf(c, "wake"))
            /\ DelaysOf(c) = alone.delays
            /\ InvocationsOf(c) <= alone.invocations
            /\ calls[c].pc \in {"resolved", "rejected"} =>
                  /\ calls[c].pc = alone.pc
                  /\ InvocationsOf(c) = alone.invocations
                  /\ calls[c].result = alone.result
                  /\ calls[c].error = alone.error

\* C13 witness: call 1, an analysis, waits for its third attempt after two failures
\* and two waits, while call 2 is suspended at its first invocation
C13_Witness ==
    /\ calls[1].kind = "analyze"
    /\ calls[1].pc = "sleeping"
    /\ calls[1].attempt = 2
    /\ DelaysOf(1) = <<2000, 4000>>
    /\ calls[2].kind = "generic"
    /\ calls[2].pc = "awaiting"
    /\ calls[2].attempt = 1

(***************************************************************************)
(* sanitizeInput.                                                          *)
(***************************************************************************)
\* how many characters a from position i on and b from position j on have in common
CommonRun(a, b, i, j) ==
    Cardinality({k \in 1..Min({Len(a) - i + 1, Len(b) - j + 1}) :
                    SubSeq(a, i, i + k - 1) = SubSeq(b, j, j + k - 1)})

RECURSIVE Embeds(_, _, _, _)
\* a from position i on is found, character by character and in order, in b from j on
Embeds(a, b, i, j) ==
    IF i > Len(a) THEN TRUE
    ELSE IF j > Len(b) THEN FALSE
    ELSE LET run == CommonRun(a, b, i, j)
         IN  IF run > 0 THEN Embeds(a, b, i + run, j + run) ELSE Embeds(a, b, i, j + 1)

\* a is made of characters of b, in the order they have in b
IsSubsequence(a, b) == Embeds(a, b, 1, 1)

C21_ContentSlideElements ==
    (lsection # NoValue /\ lslide # NoValue) =>
        LET bullets == Elements(Get(lsection, "bullets"))
            images == Elements(Get(lsection, "images"))
            nb == Len(bullets)
            ni == Len(images)
            contents == lslide.contents
        IN  /\ Len(contents) = 1 + nb + ni
            /\ contents[1].type = "title"
            /\ contents[1].content = Get(lsection, "heading")
            /\ \A i \in 0..(nb - 1) :
                  /\ contents[2 + i].type = "bullet"
                  /\ contents[2 + i].content = bullets[i + 1]
                  /\ contents[2 + i].position = [x |-> 20, y |-> 40 + (12 * i)]
                  /\ i > 0 => contents[2 + i].position.y - contents[1 + i].position.y = 12
            /\ \A j \in 0..(ni - 1) :
                  /\ contents[2 + nb + j].type = "image"
                  /\ contents[2 + nb + j].content = images[j + 1]
                  /\ contents[2 + nb + j].position = [x |-> 70, y |-> 30 + (20 * j)]
            /\ (nb = 0 /\ ni = 0) => TypesOf(lslide) = <<"title">>

\* C21 witness: a slide built from a section with three bullets and two images
C21_Witness ==
    /\ lsection = LayoutSection(3, 2)
    /\ lslide # NoValue
    /\ TypesOf(lslide) = <<"title", "bullet", "bullet", "bullet", "image", "image">>
    /\ lslide.contents[4].position = [x |-> 20, y |-> 64]
    /\ lslide.contents[6].position = [x |-> 70, y |-> 50]

(***************************************************************************)
(* The layout optimizer: the order of the elements.                        *)
(***************************************************************************)
PriorityOrder == <<"title", "subtitle", "bullet", "text", "image", "code", "chart">>

\* the place of a type in the priority order, unrecognized types after all of them
Rank(type) ==
    IF \E r \in 1..Len(PriorityOrder) : PriorityOrder[r] = type
    THEN CHOOSE r \in 1..Len(PriorityOrder) : PriorityOrder[r] = type
    ELSE Len(PriorityOrder) + 1

\* where the element with this id stands in a slide
IndexOf(sl, id) == CHOOSE j \in 1..Len(sl.contents) : sl.contents[j].id = id

\* C22: the result of optimizeSlideLayout is ordered title < subtitle < bullet < text <
\* image < code < chart, unrecognized types after all of these, and two elements of the
\* same priority stand in the order they had in the argument.
C22_StablePrioritySort ==
    \A i \in 1..Len(layouts) :
        \A j, k \in 1..Len(layouts[i].contents) :
            j < k =>
                LET a == layouts[i].contents[j]
                    b == layouts[i].contents[k]
                IN  /\ Rank(a.type) <= Rank(b.type)
                    /\ Rank(a.type) = Rank(b.type) =>
                          IndexOf(PassInput(i), a.id) < IndexOf(PassInput(i), b.id)

\* C22 witness: a text and two bullets handed in; the bullets move ahead of the text and
\* keep the order they had
C22_Witness ==
    /\ Len(layouts) = 1
    /\ TypesOf(lslide) = <<"text", "bullet", "bullet">>
    /\ TypesOf(layouts[1]) = <<"bullet", "bullet", "text">>
    /\ layouts[1].contents[1].id = "e2"
    /\ layouts[1].contents[2].id = "e3"

(***************************************************************************)
(* The layout optimizer: the positioning walk.                             *)
(***************************************************************************)
HeadingTypes == {"title", "subtitle"}
BodyTypes == {"bullet", "text"}

\* element j of the slide is placed at the cursor and so is the element after it
CursorMoves(sl, j) ==
    /\ j < Len(sl.contents)
    /\ sl.contents[j].type \in HeadingTypes \cup BodyTypes
    /\ sl.contents[j + 1].type \in HeadingTypes \cup BodyTypes

\* what element j added to the cursor, read off the element placed next
StepAfter(sl, j) == sl.contents[j + 1].position.y - sl.contents[j].position.y

\* titles and subtitles centered, images pinned, the walk starting at 15
HeadingsAndImagesPlaced(sl) ==
    \A j \in 1..Len(sl.contents) :
        LET e == sl.contents[j] IN
        /\ e.type \in HeadingTypes => e.position.x = 50
        /\ (j = 1 /\ e.type \in HeadingTypes \cup BodyTypes) => e.position.y = 15
        /\ e.type = "image" => e.position = [x |-> 70, y |-> 25]

\* C23 as stated: titles and subtitles are centered at the cursor and each advances it
\* by strictly more than every bullet and every text does; images are pinned to one
\* position and do not advance the cursor.
C23_Original ==
    \A i \in 1..Len(layouts) :
        /\ HeadingsAndImagesPlaced(layouts[i])
        /\ \A j, m \in 1..Len(layouts[i].contents) :
              ( /\ CursorMoves(layouts[i], j) /\ CursorMoves(layouts[i], m)
                /\ layouts[i].contents[j].type \in HeadingTypes
                /\ layouts[i].contents[m].type \in BodyTypes )
              => StepAfter(layouts[i], j) > StepAfter(layouts[i], m)

\* C23 amended: titles and subtitles are centered at the cursor, which starts at 15; a
\* title advances it by 20, more than every body element; a subtitle advances it by 15,
\* more than a bullet (12) and exactly as much as a text (15); images are pinned to
\* x=70, y=25 whatever the cursor, and no element placed at the cursor comes after one.
C23_PositioningWalk ==
    \A i \in 1..Len(layouts) :
        /\ HeadingsAndImagesPlaced(layouts[i])
        /\ \A j \in 1..Len(layouts[i].contents) :
              /\ CursorMoves(layouts[i], j) =>
                    StepAfter(layouts[i], j) =
                        CASE layouts[i].contents[j].type = "title" -> 20
                          [] layouts[i].contents[j].type = "subtitle" -> 15
                          [] layouts[i].contents[j].type = "bullet" -> 12
                          [] layouts[i].contents[j].type = "text" -> 15
              /\ layouts[i].contents[j].type = "image" =>
                    \A m \in (j + 1)..Len(layouts[i].contents) :
                        layouts[i].contents[m].type \notin HeadingTypes \cup BodyTypes

\* C23 witness: a subtitle and two texts; the subtitle and the first text both advance
\* the cursor by 15
C23_Witness ==
    /\ Len(layouts) = 1
    /\ TypesOf(layouts[1]) = <<"subtitle", "text", "text">>
    /\ layouts[1].contents[1].position = [x |-> 50, y |-> 15]
    /\ layouts[1].contents[2].position.y = 30
    /\ layouts[1].contents[3].position.y = 45

(***************************************************************************)
(* Auto-save.                                                              *)
(***************************************************************************)
\* the onSave calls this step starts
Started == onSaveCalls' \ onSaveCalls

\* C24: when the debounce timer fires, onSave is called only if the serialized
\* dependencies differ from the snapshot the last successful save, debounced or forced,
\* had saved; lastSavedRef holds that snapshot: a successful save records what it
\* saved, a failed save leaves it as it was.
C24_SaveOnlyWhenChanged ==
    /\ [](lastSavedRef = saveLog.saved)
    /\ [][\A c \in Started : c.by = "debouncedSave" => c.snapshot # saveLog.saved]_vars

\* C24 witness: the dependencies went from 'a' to 'b' and back before the timer fired;
\* the one onSave call there was, a forced one of 'a', succeeded; the timer fired and
\* returned without a call
C24_Witness ==
    /\ dependencies = <<Str("a")>>
    /\ lastSavedRef = "[\"a\"]"
    /\ saveLog.changes = 2
    /\ saveLog.onSaves = 1
    /\ saveLog.forceSaves = 1
    /\ saveLog.unchanged = 1
    /\ onSaveCalls = {}
    /\ timeoutId = NoValue

(***************************************************************************)
(* The assembler on validated input.                                       *)
(***************************************************************************)
\* C25: for every object the validator accepts, generatePresentationFromAnalysis
\* returns a presentation and does not throw, also when a section has no bullets field
\* or an entry of sections is not an object.
C25_AssemblerTotal ==
    gpc = "done" =>
        /\ presentation.kind = "return"
        /\ Len(presentation.value.slides) = Len(InputSections) + 1

(***************************************************************************)
(* The circuit breaker.                                                    *)
(***************************************************************************)
RECURSIVE FailureStreak(_)
\* the failures of fn since its last success, as the history has them
FailureStreak(log) ==
    IF log = <<>> \/ log[Len(log)] = "success" THEN 0
    ELSE FailureStreak(SubSeq(log, 1, Len(log) - 1))
         + (IF log[Len(log)] = "failure" THEN 1 ELSE 0)

\* the number of execute calls made so far
ExecuteCalls == Len(breakerLog) + Cardinality(executing)

\* this step is a call of execute; one that is rejected; one that invokes fn
CallStep == ExecuteCalls' = ExecuteCalls + 1
RejectedStep ==
    /\ breakerLog' = Append(breakerLog, "rejected")
    /\ executing' = executing
    /\ failures' = failures
    /\ state' = state
InvokedStep == CallStep /\ Cardinality(executing') = Cardinality(executing) + 1

\* this step is the settlement of fn: fulfilled, rejected
SuccessStep == breakerLog' = Append(breakerLog, "success")
FailureStep == breakerLog' = Append(breakerLog, "failure")

SinceLastFailure == now - lastFailureTime.time

\* C26: with calls executed one after another and threshold >= 1, the state between
\* calls is OPEN exactly when fn has failed threshold times or more in a row; a call made
\* while OPEN before timeout has passed since the last failure is rejected, fn is not
\* invoked and failures is unchanged; a call made while OPEN after the timeout invokes
\* fn with the state HALF_OPEN, and then success gives CLOSED with failures = 0, failure
\* gives OPEN; OPEN implies failures >= threshold and CLOSED implies failures < threshold.
C26_BreakerSequential ==
    /\ [](/\ threshold >= 1
          /\ executing = {} => (state = "OPEN" <=> FailureStreak(breakerLog) >= threshold)
          /\ state = "OPEN" => failures >= threshold
          /\ state = "CLOSED" => failures < threshold)
    /\ [][/\ (CallStep /\ state = "OPEN" /\ SinceLastFailure < timeout) => RejectedStep
          /\ (CallStep /\ state = "OPEN" /\ SinceLastFailure > timeout) =>
                (InvokedStep /\ state' = "HALF_OPEN" /\ failures' = failures)
          /\ (SuccessStep /\ state = "HALF_OPEN") => (state' = "CLOSED" /\ failures' = 0)
          /\ (FailureStep /\ state = "HALF_OPEN") => state' = "OPEN"]_vars

\* C26 witness: threshold 2; two failures open the breaker, a call is rejected, the call
\* after the timeout is the trial, and it succeeds
C26_Witness ==
    /\ threshold = 2
    /\ breakerLog = <<"failure", "failure", "rejected", "success">>
    /\ state = "CLOSED"
    /\ failures = 0

\* the calls whose fn settles in this step
Settling == executing \ executing'

\* C27: with overlapping execute calls, the breaker leaves OPEN only by a later execute
\* call that finds the timeout elapsed; the completion of a call that was in flight when
\* the breaker tripped neither sets the state to CLOSED nor resets failures; and while
\* the state is HALF_OPEN at most one trial call of fn is in flight.
C27_BreakerOverlapping ==
    /\ [][(state = "OPEN" /\ state' # "OPEN") =>
             (InvokedStep /\ state' = "HALF_OPEN" /\ SinceLastFailure > timeout)]_vars
    /\ [][\A c \in Settling :
             (~c.trial /\ state \in {"OPEN", "HALF_OPEN"}) =>
                 (state' # "CLOSED" /\ failures' >= failures)]_vars
    /\ [](state = "HALF_OPEN" => Cardinality({c \in executing : c.trial}) <= 1)

\* C28: with auto-save enabled and onSave always succeeding, once the dependencies have
\* stopped changing their final value is eventually saved and stays saved: lastSavedRef
\* holds the serialized final dependencies, also when a change or a timer expiry came
\* while an earlier onSave was in progress.
C28_LastChangeSaved == <>[](lastSavedRef = StringifyDependencies(dependencies))

\* C29: at most one onSave call of a useAutoSave instance is in progress at any time,
\* whatever the interleaving of debounced saves and forceSave calls.
C29_OneSaveAtATime == Cardinality(onSaveCalls) <= 1

(***************************************************************************)
(* generateSmartTheme.                                                     *)
(***************************************************************************)
\* the model call failed, or its text has no '{...}' span, or the span is no JSON
ThemeFailure(raw) ==
    \/ raw.kind = "throw"
    \/ ~HasBraceSpan(raw.text)
    \/ JsonParse(GreedySpan(raw.text)).kind = "throw"

\* C30: generateSmartTheme never rejects and never retries: the model is called at most
\* once, the call never sleeps, and after a model-call failure (a rate-limit error
\* included), a text without JSON or a JSON.parse failure it resolves with the fixed
\* theme 'fallback-smart' after exactly one model call.
C30_SmartThemeFallback ==
    caller = "theme" =>
        /\ pc \in {"loop", "awaiting", "resolved"}
        /\ attempt = 1
        /\ Invocations <= 1
        /\ Len(Sleeps) = 0
        /\ pc = "resolved" =>
              /\ Invocations = 1
              /\ ThemeFailure(RawOutcomes[1]) =>
                    (result = FallbackTheme /\ result.id = "fallback-smart")

\* C30 witness: the model call was rejected with a 429 error; the call resolved with the
\* fallback theme
C30_Witness ==
    /\ caller = "theme"
    /\ pc = "resolved"
    /\ RawOutcomes = <<Throw(TooManyRequestsError)>>
    /\ result = FallbackTheme

====
